---- MODULE Spec2Model ----
(***************************************************************************)
(* Better-Tello-GUI: the Scratch-to-timeline synthesizer                   *)
(* (src/src/core/scratch_parser.py) and the show runner                    *)
(* (src/src/core/show_runner.py) as state machines.                        *)
(*                                                                         *)
(* Times are integers in milliseconds (8.0 s = 8000).  A Python dict key   *)
(* that an event does not have is the value NoKey.  The fields step and    *)
(* actor of an event are history fields: they record which iteration of    *)
(* the stepping loop and which actor's action appended the event; the      *)
(* Python dicts do not carry them and no operator of the model reads them. *)
(***************************************************************************)
EXTENDS Integers, Sequences, FiniteSets, TLC

\* ------------------------------------------------------------------ bounds

\* Longest action list an actor's traversal yields in the model.
MaxActions == 2

\* Most distinct time offsets in a schedule the runner replays in the model.
MaxOffsets == 2

\* Longest script of the first sprite made of freely chosen blocks.
MaxBlocks == 2

\* Most datagrams the response socket receives during one send_command call.
MaxDatagrams == 2

\* ------------------------------------------------------- program constants

TAKEOFF_DURATION == 8000
LAND_EPSILON == 100
FLIP_DURATION == 3000
TURN_BASE == 2000
TURN_PER_QUARTER == 1500
MIN_TELLO_MOVE == 20
SCRATCH_TO_CM_RATE == 1
INITIAL_HOVER_HEIGHT_CM == 80
TELLO_HORIZONTAL_SPEED_CMS == 50
TELLO_VERTICAL_SPEED_CMS == 40
MOVE_TIME_OVERHEAD == 750
MINIMUM_MOVE_TIME == 1500
FOREVER_PASSES == 10

NoKey == "-"

\* The targets of project.json, in file order; the first is the stage.
Targets == <<"Stage", "A", "B">>
TargetSet == {Targets[i] : i \in 1..Len(Targets)}
\* target.get('isStage', False)
IsStage(name) == name = "Stage"
SpriteSet == {n \in TargetSet : ~IsStage(n)}

\* ------------------------------------------------------------- the actions

\* duration of a rotate action, line 126: 2.0 + (abs(degrees) / 90.0) * 1.5
TurnDuration(degrees) ==
    TURN_BASE + ((IF degrees < 0 THEN -degrees ELSE degrees) * TURN_PER_QUARTER) \div 90

\* The actions _traverse_blocks appends, by kind (sprite_name filled in).
WaitAction(name, d) ==
    [duration |-> d, commands |-> <<>>, is_wait |-> TRUE, sprite_name |-> name]
FlipAction(name) ==
    [duration |-> FLIP_DURATION,
     commands |-> <<[target |-> name, command |-> "flip l"]>>,
     is_wait |-> FALSE, sprite_name |-> name]
\* motion_turnright by 180 degrees: f"{cmd_type} {int(degrees)}"
HalfTurnAction(name) ==
    [duration |-> TurnDuration(180),
     commands |-> <<[target |-> name, command |-> "cw 180"]>>,
     is_wait |-> FALSE, sprite_name |-> name]

\* Durations of the control_wait blocks the model's projects contain.
WaitDurations == {1000, 3000}

ActionsOf(name) ==
    {WaitAction(name, d) : d \in WaitDurations}
        \cup {FlipAction(name), HalfTurnAction(name)}

RECURSIVE SeqsUpTo(_, _)
SeqsUpTo(S, n) ==
    IF n = 0 THEN {<<>>}
    ELSE LET shorter == SeqsUpTo(S, n - 1)
         IN  shorter \cup {Append(s, x) : s \in {t \in shorter : Len(t) = n - 1}, x \in S}

\* What a target's block table amounts to: whether it holds a flag-click
\* entry block with a successor, and the action list its traversal yields.
NoScript == [hasFlag |-> FALSE, actions |-> <<>>]

Scripts(name) ==
    {NoScript} \cup [hasFlag : {TRUE}, actions : SeqsUpTo(ActionsOf(name), MaxActions)]

StageScripts == {NoScript, [hasFlag |-> TRUE, actions |-> <<FlipAction("Stage")>>]}

\* What the .sb3 file is: a project; a project.json holding {} ; the JSON of a
\* non-empty list; not a zip file; a zip without project.json; broken JSON.
Archives ==
    {"ok", "empty_object", "json_list", "unopenable", "no_project_json", "bad_json"}

VARIABLES
    archive,               \* what the .sb3 file is
    blocks,                \* target name -> its script (see Scripts)
    ppc,                   \* where the caller of the parser is
    project_data,          \* self.project_data: "None", "empty", "list" or "data"
    has_any_valid_action,  \* self.has_any_valid_action
    log_queue,             \* the entries put on log_queue, oldest first
    all_actions,           \* sprite name -> remaining action list
    drones_with_actions,   \* list(all_actions.keys()) at line 206
    final_event_list,      \* the events appended so far, in append order
    master_time,
    step,                  \* iterations of the stepping loop so far
    result                 \* what parse_to_schedule returned

pvars == <<archive, blocks, ppc, project_data, has_any_valid_action,
           log_queue, all_actions, drones_with_actions, final_event_list,
           master_time, step, result>>

VARIABLES
    mode,            \* "run_show" (ShowRunner.run_show) or "worker" (run_show_worker)
    drones_config,   \* the names of the configured drones
    show_schedule,   \* the schedule the runner replays
    controllers,     \* the names that have a TelloController (the dict's keys)
    stop_event,      \* the shared threading.Event
    spc,             \* where the show thread is
    cmd_idx,         \* index into initial_commands
    off_idx,         \* index into all_event_times of the offset being handled
    processed,       \* number of calls of _process_events made
    joined,          \* controller -> state of its thread of the current barrier
    inflight,        \* controller -> send threads started mid-show, not returned
    dispatched,      \* the sends the schedule loop started, in order
    calls,           \* history: the send_command calls of the joined phases
    returned_calls,  \* history: those of them that have returned
    closed,          \* the controllers whose close() has run
    raised,          \* whether the except clause of the run has run
    stop_seen,       \* history: where the show thread was when stop_event was set
    completion       \* history: what _wait_for_completion found and did

svars == <<mode, drones_config, completion, show_schedule, controllers, stop_event, spc, cmd_idx,
           off_idx, processed, joined, inflight, dispatched, calls, returned_calls,
           closed, raised, stop_seen>>

VARIABLES
    project,                \* sprite name -> its script (see Chains)
    all_blocks,             \* the dict built at line 186: block id -> entry
    tpc,                    \* where parse_to_schedule is in its loop over the targets
    target_idx,             \* index into Targets of the target being handled
    initial_variable_state, \* the snapshot built at lines 188-193
    procedures,             \* procedures_for_this_sprite: proccode -> definition
    frames,                 \* the active calls of _traverse_blocks, innermost last
    position,               \* (px, py, pz), in tenths
    current_vars,           \* the dict the running traversal reads and writes
    local_action_sequence,  \* the actions appended so far by the running traversal
    visited,                \* history: blocks the running traversal has handled
    moves,                  \* history: the axis deltas the move blocks computed
    entered                 \* history: the nested calls of _traverse_blocks made

tvars == <<project, all_blocks, tpc, target_idx, initial_variable_state, procedures, frames,
           position, current_vars, local_action_sequence, visited, moves, entered>>

VARIABLES
    cpc,              \* where the thread inside TelloController.send_command is
    the_command,      \* the command being sent, as its characters
    response,         \* self.response: None or the stripped text of a datagram
    ctl_stop_event,   \* the controller's own self.stop_event
    socket_closed,    \* whether close() has closed the command socket
    receiver,         \* the _receive_response thread: "blocked" in recvfrom or "ended"
    timed_out,        \* whether time.time() - start_time has passed the timeout
    sendto_done,             \* whether sendto went through
    arrivals,         \* history: the datagrams stored since line 145, with their timing
    observed,         \* history: what ended the wait
    ret               \* what send_command returned

cvars == <<cpc, the_command, response, ctl_stop_event, socket_closed, receiver, timed_out,
           sendto_done, arrivals, observed, ret>>

VARIABLES
    first_result      \* history: what an earlier call of parse_to_schedule returned

hvars == <<first_result>>

VARIABLES
    app,              \* TelloApp: the buttons' states, self.controllers, self.stop_event
    app_queue,        \* TelloApp.log_queue, shared with the runner and the controllers
    last_polled,      \* history: the type of the message the last GUI step consumed
    kpc,              \* where the thread inside ShowRunner.connect is
    k_idx,            \* index into drones_to_init
    temp_controllers, \* the names connect has created a controller for, in order
    replies,          \* controller name -> its self.response
    connect_closed,   \* the controllers of this connect call whose close() has run
    connect_log,      \* history: the types of the messages this connect call put
    rpc,              \* where the show thread started by start_show is
    run_controllers,  \* the controllers handed to ShowRunner by start_show
    run_closed,       \* the controllers _cleanup_controllers has closed
    run_log           \* history: the types of the messages the show thread put

gvars == <<app, app_queue, last_polled, kpc, k_idx, temp_controllers, replies,
           connect_closed, connect_log, rpc, run_controllers, run_closed, run_log>>

\* What an action of one component leaves alone of the others.
notParser == <<svars, tvars, cvars, hvars, gvars>>
notRunner == <<pvars, tvars, cvars, hvars, gvars>>
notTraverse == <<svars, cvars, hvars, gvars>>
notSend == <<pvars, svars, tvars, hvars, gvars>>
notGui == <<pvars, svars, tvars, cvars, hvars>>

vars == <<pvars, svars, tvars, cvars, hvars, gvars>>

\* ------------------------------------------------------------- the events

NoText == [tag |-> NoKey, who |-> <<>>, num |-> 0]

\* f"{x:.2f}": the number of hundredths shown, rounded from milliseconds.
Format2f(ms) == (ms + 5) \div 10
\* f"{x:.1f}": the number of tenths shown.
Format1f(ms) == (ms + 50) \div 100

TakeoffEvent ==
    [time |-> 0, type |-> "TAKEOFF", target |-> "system",
     text |-> [tag |-> "takeoff", who |-> <<>>, num |-> Format1f(TAKEOFF_DURATION)],
     command |-> NoKey, step |-> 0, actor |-> NoKey]

WarningEvent(action, t, k) ==
    [time |-> t, type |-> "WARNING", target |-> NoKey,
     text |-> [tag |-> "wait_extended", who |-> <<action.sprite_name>>, num |-> 0],
     command |-> NoKey, step |-> k, actor |-> action.sprite_name]

WaitText(action) == [tag |-> "wait", who |-> <<>>, num |-> Format2f(action.duration)]

WaitEvent(action, t, k) ==
    [time |-> t, type |-> "WAIT", target |-> action.sprite_name,
     text |-> WaitText(action),
     command |-> NoKey, step |-> k, actor |-> action.sprite_name]

CommandEvent(cmd, action, t, k) ==
    [time |-> t, type |-> "COMMAND", target |-> cmd.target, text |-> NoText,
     command |-> cmd.command, step |-> k, actor |-> action.sprite_name]

LandEvent(t, names) ==
    [time |-> t, type |-> "LAND", target |-> "ALL",
     text |-> [tag |-> "land", who |-> names, num |-> 0],
     command |-> "land", step |-> 0, actor |-> NoKey]

\* ------------------------------------------------- _load_project_data

\* The archives on which ZipFile, z.open or json.load raises.
LoadFails == archive \in {"unopenable", "no_project_json", "bad_json"}

\* Mutant: only the zip errors are caught, a JSON syntax error propagates.
load_project_data_json_uncaught ==
    CASE archive = "ok" -> [data |-> "data", logged |-> FALSE, raises |-> FALSE]
      [] archive = "empty_object" -> [data |-> "empty", logged |-> FALSE, raises |-> FALSE]
      [] archive = "json_list" -> [data |-> "list", logged |-> FALSE, raises |-> FALSE]
      [] archive = "bad_json" -> [data |-> "None", logged |-> FALSE, raises |-> TRUE]
      [] OTHER -> [data |-> "None", logged |-> TRUE, raises |-> FALSE]

\* try: ... return json.load(f) / except Exception: log ERROR; return None
load_project_data ==
    CASE archive = "ok" -> [data |-> "data", logged |-> FALSE, raises |-> FALSE]
      [] archive = "empty_object" -> [data |-> "empty", logged |-> FALSE, raises |-> FALSE]
      [] archive = "json_list" -> [data |-> "list", logged |-> FALSE, raises |-> FALSE]
      [] OTHER -> [data |-> "None", logged |-> TRUE, raises |-> FALSE]

ErrorEntry == [level |-> "ERROR"]

\* ------------------------------------------------------- parse_to_schedule

\* line 183: "if not self.project_data" (None and {} are both falsy)
NotProjectData == project_data \in {"None", "empty"}

\* _find_start_block and lines 84-86 of _parse_sprite_to_actions
parse_sprite_to_actions(name) ==
    IF blocks[name].hasFlag THEN blocks[name].actions ELSE <<>>

\* lines 195-203: the names whose action list is non-empty, in target order
RECURSIVE KeysFrom(_)
KeysFrom(i) ==
    IF i > Len(Targets) THEN <<>>
    ELSE (IF ~IsStage(Targets[i]) /\ parse_sprite_to_actions(Targets[i]) # <<>>
          THEN <<Targets[i]>> ELSE <<>>)
            \o KeysFrom(i + 1)

AnyStartBlock == \E n \in SpriteSet : blocks[n].hasFlag

\* "any(all_actions.values())"
AnyActionsLeft == \E n \in DOMAIN all_actions : all_actions[n] # <<>>

\* Mutant: only the first actor's head reaches the step's actions.
PoppedFirstOnly(i) ==
    IF i <= Len(drones_with_actions) /\ all_actions[drones_with_actions[i]] # <<>>
    THEN <<Head(all_actions[drones_with_actions[i]])>> ELSE <<>>

\* line 210-211: the heads popped this step, in dict order
RECURSIVE PoppedFrom(_)
PoppedFrom(i) ==
    IF i > Len(drones_with_actions) THEN <<>>
    ELSE LET n == drones_with_actions[i]
         IN  (IF all_actions[n] # <<>> THEN <<Head(all_actions[n])>> ELSE <<>>)
                \o PoppedFrom(i + 1)

Max2(a, b) == IF a >= b THEN a ELSE b

\* Mutant: the step lasts as long as the action popped last, not the longest.
StepDurationLast(acts) == IF acts = <<>> THEN 0 ELSE acts[Len(acts)].duration

\* line 209, 211: max_duration_this_step, folded from 0.0
RECURSIVE StepDuration(_)
StepDuration(acts) ==
    IF acts = <<>> THEN 0
    ELSE Max2(StepDuration(SubSeq(acts, 1, Len(acts) - 1)), acts[Len(acts)].duration)

\* Mutant: a wait as long as the step is flagged too.
WarnsExtensionLE(action, maxd) == action.is_wait /\ action.duration <= maxd

\* line 213
WarnsExtension(action, maxd) == action.is_wait /\ action.duration < maxd

RECURSIVE CommandEvents(_, _, _, _)
CommandEvents(cmds, action, t, k) ==
    IF cmds = <<>> THEN <<>>
    ELSE <<CommandEvent(Head(cmds), action, t, k)>>
            \o CommandEvents(Tail(cmds), action, t, k)

\* lines 213-217: the events one popped action appends
EventsOfAction(action, t, maxd, k) ==
    (IF WarnsExtension(action, maxd) THEN <<WarningEvent(action, t, k)>> ELSE <<>>)
        \o (IF action.is_wait THEN <<WaitEvent(action, t, k)>> ELSE <<>>)
        \o CommandEvents(action.commands, action, t, k)

RECURSIVE EventsOfStep(_, _, _, _)
EventsOfStep(acts, t, maxd, k) ==
    IF acts = <<>> THEN <<>>
    ELSE EventsOfAction(Head(acts), t, maxd, k) \o EventsOfStep(Tail(acts), t, maxd, k)

\* line 222
LandTime(mt) == mt + LAND_EPSILON

\* Mutant: the key's two parts swapped.
SortKeyTypeFirst(e) == <<IF e.type = "WARNING" THEN 0 ELSE 1, e.time>>

\* Mutant: the key is the time alone.
SortKeyTimeOnly(e) == <<e.time, 1>>

\* line 234: key=lambda x: (x['time'], 0 if x['type'] == 'WARNING' else 1)
SortKey(e) == <<e.time, IF e.type = "WARNING" THEN 0 ELSE 1>>

KeyLess(a, b) == a[1] < b[1] \/ (a[1] = b[1] /\ a[2] < b[2])

\* list.sort is stable: e goes behind every element whose key is not greater
RECURSIVE InsertSorted(_, _)
InsertSorted(s, e) ==
    IF s = <<>> THEN <<e>>
    ELSE IF KeyLess(SortKey(e), SortKey(s[Len(s)]))
         THEN Append(InsertSorted(SubSeq(s, 1, Len(s) - 1), e), s[Len(s)])
         ELSE Append(s, e)

RECURSIVE SortEvents(_)
SortEvents(s) ==
    IF s = <<>> THEN <<>>
    ELSE InsertSorted(SortEvents(SubSeq(s, 1, Len(s) - 1)), s[Len(s)])

NoResult == [returned |-> FALSE, schedule |-> <<>>, total_time |-> 0]

\* line 183: return [], 0.0
EmptyResult == [returned |-> TRUE, schedule |-> <<>>, total_time |-> 0]

\* ------------------------------------------------- the parts not running

\* The runner's variables while only the parser is looked at.
IdleShow ==
    /\ mode = "none"
    /\ drones_config = {}
    /\ show_schedule = <<>>
    /\ controllers = {}
    /\ stop_event = FALSE
    /\ spc = "idle"
    /\ cmd_idx = 0
    /\ off_idx = 0
    /\ processed = 0
    /\ joined = <<>>
    /\ inflight = <<>>
    /\ dispatched = <<>>
    /\ calls = {}
    /\ returned_calls = {}
    /\ closed = {}
    /\ raised = FALSE
    /\ stop_seen = [set |-> FALSE, idx |-> 0, armed |-> FALSE, at |-> "nowhere", cmd |-> 0]
    /\ completion = [end_wait_time |-> 0, slept |-> FALSE, done |-> FALSE]

\* The GUI session's variables while it is not looked at.
IdleGui ==
    /\ app = [connect_btn |-> "disabled", start_btn |-> "disabled", stop_btn |-> "disabled",
               controllers |-> {}, stop_event |-> FALSE]
    /\ app_queue = <<>>
    /\ last_polled = "none"
    /\ kpc = "idle"
    /\ k_idx = 0
    /\ temp_controllers = <<>>
    /\ replies = <<>>
    /\ connect_closed = {}
    /\ connect_log = <<>>
    /\ rpc = "idle"
    /\ run_controllers = {}
    /\ run_closed = {}
    /\ run_log = <<>>

\* The parser's variables while only the runner is looked at.
IdleParse ==
    /\ archive = "ok"
    /\ blocks = [n \in TargetSet |-> NoScript]
    /\ ppc = "idle"
    /\ project_data = "None"
    /\ has_any_valid_action = FALSE
    /\ log_queue = <<>>
    /\ all_actions = <<>>
    /\ drones_with_actions = <<>>
    /\ final_event_list = <<>>
    /\ master_time = 0
    /\ step = 0
    /\ result = NoResult

\* The interpreter's variables while it is not looked at.
IdleTraverse ==
    /\ project = <<>>
    /\ all_blocks = <<>>
    /\ tpc = "idle"
    /\ target_idx = 0
    /\ initial_variable_state = <<>>
    /\ procedures = <<>>
    /\ frames = <<>>
    /\ position = [x |-> 0, y |-> 0, z |-> 0]
    /\ current_vars = <<>>
    /\ local_action_sequence = <<>>
    /\ visited = 0
    /\ moves = <<>>
    /\ entered = <<>>

\* self.response = None
NoResponse == [set |-> FALSE, text |-> <<>>]

\* The controller's variables while no send_command call is looked at.
IdleSend ==
    /\ cpc = "idle"
    /\ the_command = <<>>
    /\ response = NoResponse
    /\ ctl_stop_event = FALSE
    /\ socket_closed = FALSE
    /\ receiver = "blocked"
    /\ timed_out = FALSE
    /\ sendto_done = FALSE
    /\ arrivals = <<>>
    /\ observed = "nothing"
    /\ ret = "none"

\* parse_to_schedule has not been called before.
NoEarlierCall == first_result = NoResult

\* ----------------------------------------------------- the parser's steps

InitParse ==
    /\ archive \in Archives
    /\ \E stage \in StageScripts, a \in Scripts("A"), b \in Scripts("B") :
            blocks = IF archive = "ok"
                     THEN ("Stage" :> stage) @@ ("A" :> a) @@ ("B" :> b)
                     ELSE [n \in TargetSet |-> NoScript]
    /\ ppc = "new"
    /\ project_data = "None"
    /\ has_any_valid_action = FALSE
    /\ log_queue = <<>>
    /\ all_actions = <<>>
    /\ drones_with_actions = <<>>
    /\ final_event_list = <<>>
    /\ master_time = 0
    /\ step = 0
    /\ result = NoResult
    /\ IdleShow
    /\ IdleTraverse
    /\ IdleSend
    /\ NoEarlierCall
    /\ IdleGui

\* ScratchProjectParser.__init__
Construct ==
    /\ ppc = "new"
    /\ LET loaded == load_project_data
       IN  /\ log_queue' = IF loaded.logged THEN Append(log_queue, ErrorEntry)
                           ELSE log_queue
           /\ IF loaded.raises
              THEN /\ ppc' = "raised"
                   /\ UNCHANGED <<project_data, has_any_valid_action>>
              ELSE /\ ppc' = "constructed"
                   /\ project_data' = loaded.data
                   /\ has_any_valid_action' = FALSE
    /\ UNCHANGED <<archive, blocks, all_actions, drones_with_actions,
                   final_event_list, master_time, step, result>>
    /\ UNCHANGED notParser

\* parse_to_schedule, lines 183: nothing was loaded
ParseNothing ==
    /\ ppc = "constructed"
    /\ NotProjectData
    /\ result' = EmptyResult
    /\ ppc' = "returned"
    /\ UNCHANGED <<archive, blocks, project_data, has_any_valid_action,
                   log_queue, all_actions, drones_with_actions, final_event_list,
                   master_time, step>>
    /\ UNCHANGED notParser

\* parse_to_schedule, line 186: project_data is a list, which has no .get
ParseRaises ==
    /\ ppc = "constructed"
    /\ project_data = "list"
    /\ final_event_list' = <<TakeoffEvent>>
    /\ master_time' = TAKEOFF_DURATION
    /\ ppc' = "raised"
    /\ UNCHANGED <<archive, blocks, project_data, has_any_valid_action,
                   log_queue, all_actions, drones_with_actions, step, result>>
    /\ UNCHANGED notParser

\* Mutant: the event list is kept on the parser object between calls.
EventListKept == IF final_event_list = <<>> THEN <<TakeoffEvent>> ELSE final_event_list

\* line 184: every call starts a new list with the takeoff event
EventListAtCall == <<TakeoffEvent>>

\* parse_to_schedule, lines 184-206: the takeoff event and the action lists
ParseBegin ==
    /\ ppc = "constructed"
    /\ project_data = "data"
    /\ final_event_list' = EventListAtCall
    /\ master_time' = TAKEOFF_DURATION
    /\ has_any_valid_action' = (has_any_valid_action \/ AnyStartBlock)
    /\ drones_with_actions' = KeysFrom(1)
    /\ all_actions' = [n \in {KeysFrom(1)[i] : i \in 1..Len(KeysFrom(1))}
                          |-> parse_sprite_to_actions(n)]
    /\ step' = 0
    /\ ppc' = "stepping"
    /\ UNCHANGED <<archive, blocks, project_data, log_queue, result>>
    /\ UNCHANGED notParser

\* parse_to_schedule, lines 208-218: one iteration of the stepping loop
Step ==
    /\ ppc = "stepping"
    /\ AnyActionsLeft
    /\ LET actions_this_step == PoppedFrom(1)
           max_duration_this_step == StepDuration(actions_this_step)
       IN  /\ final_event_list' = final_event_list
                \o EventsOfStep(actions_this_step, master_time,
                                max_duration_this_step, step + 1)
           /\ master_time' = master_time + max_duration_this_step
    /\ all_actions' = [n \in DOMAIN all_actions |->
                          IF all_actions[n] # <<>> THEN Tail(all_actions[n]) ELSE <<>>]
    /\ step' = step + 1
    /\ UNCHANGED <<archive, blocks, ppc, project_data,
                   has_any_valid_action, log_queue, drones_with_actions, result>>
    /\ UNCHANGED notParser

\* Mutant: line 231 (master_time = land_time) is missing.
WithLandingStaleTotal(events, mt) ==
    IF has_any_valid_action /\ drones_with_actions # <<>>
    THEN [events |-> Append(events, LandEvent(LandTime(mt), drones_with_actions)),
          total |-> mt]
    ELSE [events |-> events, total |-> mt]

\* lines 221-231: the events with the LAND event appended, and the total time
WithLanding(events, mt) ==
    IF has_any_valid_action /\ drones_with_actions # <<>>
    THEN [events |-> Append(events, LandEvent(LandTime(mt), drones_with_actions)),
          total |-> LandTime(mt)]
    ELSE [events |-> events, total |-> mt]

\* parse_to_schedule, lines 221-235: landing event, sort, return
Finish ==
    /\ ppc = "stepping"
    /\ ~AnyActionsLeft
    /\ LET landed == WithLanding(final_event_list, master_time)
       IN  /\ final_event_list' = landed.events
           /\ master_time' = landed.total
           /\ result' = [returned |-> TRUE, schedule |-> SortEvents(landed.events),
                         total_time |-> landed.total]
    /\ ppc' = "returned"
    /\ UNCHANGED <<archive, blocks, project_data, has_any_valid_action,
                   log_queue, all_actions, drones_with_actions, step>>
    /\ UNCHANGED notParser

NextParse == Construct \/ ParseNothing \/ ParseRaises \/ ParseBegin \/ Step \/ Finish

SpecParse == InitParse /\ [][NextParse]_vars

\* =========================================================== the show runner
\* src/src/core/show_runner.py.  Wall-clock time is left out: a sleep is a
\* step of the show thread, and a send thread returns (reply, timeout, stop
\* or error) at any later moment.

\* The drones that can be configured, in configuration order.
DroneOrder == <<"A", "B", "ALL", "BALL">>
Drones == {DroneOrder[i] : i \in 1..Len(DroneOrder)}

\* line 214
initial_commands == <<"command", "takeoff">>

ShowCommand(t, target, command) ==
    [time |-> t, type |-> "COMMAND", target |-> target, text |-> NoText,
     command |-> command, step |-> 0, actor |-> NoKey]

\* The event the 'stop all' block becomes (src/src/scratch_parser.py:163).
StopAllEvent(t) == ShowCommand(t, "system", "stop_all")

\* A COMMAND record without its 'command' key, as a hand-edited project file
\* can hold: cmd["command"] raises KeyError at line 306.
BrokenEvent(t) == ShowCommand(t, "A", NoKey)

\* The kinds of offset the model's schedules are made of.
OffsetKinds ==
    {"mixed", "both", "stop", "broken", "land", "takeoff", "only_ball", "land_ball"}

OffsetEvents(kind, t) ==
    CASE kind = "mixed" ->
            <<WarningEvent(WaitAction("B", 1000), t, 0),
              ShowCommand(t, "A", "flip l"),
              WaitEvent(WaitAction("B", 1000), t, 0)>>
      [] kind = "both" ->
            <<ShowCommand(t, "A", "cw 180"), ShowCommand(t, "B", "flip l")>>
      [] kind = "stop" ->
            <<ShowCommand(t, "A", "flip l"), StopAllEvent(t), ShowCommand(t, "B", "flip l")>>
      [] kind = "broken" -> <<BrokenEvent(t)>>
      [] kind = "takeoff" -> <<[TakeoffEvent EXCEPT !.time = t]>>
      [] kind = "only_ball" -> <<ShowCommand(t, "BALL", "flip l")>>
      [] kind = "land_ball" -> <<LandEvent(t, <<"BALL">>)>>
      [] OTHER -> <<LandEvent(t, <<"A", "B">>)>>

OffsetTime(i) == TAKEOFF_DURATION + (i - 1) * FLIP_DURATION

RECURSIVE ScheduleOf(_, _)
ScheduleOf(kinds, i) ==
    IF i > Len(kinds) THEN <<>>
    ELSE OffsetEvents(kinds[i], OffsetTime(i)) \o ScheduleOf(kinds, i + 1)

ShowSchedules ==
    {ScheduleOf(kinds, 1) : kinds \in SeqsUpTo(OffsetKinds, MaxOffsets) \ {<<>>}}

\* lines 54-58 and 165-169: the targets of the COMMAND, WAIT and LAND events
DroneNamesInSchedule ==
    {show_schedule[i].target :
        i \in {j \in 1..Len(show_schedule) :
                  show_schedule[j].type \in {"COMMAND", "WAIT", "LAND"}}}

\* Mutant: the sentinel is looked for in the target, not in the command.
IsStopAllByTarget(e) == e.target = "stop_all"

\* line 295
IsStopAll(e) == e.command = "stop_all"

\* line 59 of connect: the controllers the GUI hands to run_show
ConnectedControllers == {c \in drones_config : c \in DroneNamesInSchedule}

\* lines 172-178 of run_show_worker
WorkerControllers ==
    {c \in drones_config :
        \/ c \in DroneNamesInSchedule
        \/ \E i \in 1..Len(show_schedule) : IsStopAll(show_schedule[i])}

\* line 242: sorted(list(set(evt["time"] for evt in schedule)))
RECURSIVE SortedList(_)
SortedList(S) ==
    IF S = {} THEN <<>>
    ELSE LET m == CHOOSE x \in S : \A y \in S : x <= y
         IN  <<m>> \o SortedList(S \ {m})

\* Mutant: the times are sorted without being made a set first.
RECURSIVE SortedWithRepeats(_)
SortedWithRepeats(idx) ==
    IF idx = {} THEN <<>>
    ELSE LET m == CHOOSE i \in idx : \A j \in idx :
                     \/ show_schedule[i].time < show_schedule[j].time
                     \/ show_schedule[i].time = show_schedule[j].time /\ i <= j
         IN  <<show_schedule[m].time>> \o SortedWithRepeats(idx \ {m})

event_times_unmerged == SortedWithRepeats(1..Len(show_schedule))

all_event_times ==
    SortedList({show_schedule[i].time : i \in 1..Len(show_schedule)})

\* line 280
EventsToRun(exec_time) == SelectSeq(show_schedule, LAMBDA e : e.time = exec_time)

\* sub in text
Contains(sub, text) ==
    \E i \in 0..(Len(text) - Len(sub)) : SubSeq(text, i + 1, i + Len(sub)) = sub

\* A name as the characters it is written with.
Spelled(name) ==
    CASE name = "A" -> <<"A">>
      [] name = "B" -> <<"B">>
      [] name = "ALL" -> <<"A", "L", "L">>
      [] OTHER -> <<"B", "A", "L", "L">>

\* ', '.join(names)
RECURSIVE JoinNames(_, _)
JoinNames(names, i) ==
    IF i > Len(names) THEN <<>>
    ELSE (IF i > 1 THEN <<",", " ">> ELSE <<>>) \o Spelled(names[i])
            \o JoinNames(names, i + 1)

\* src/src/core/scratch_parser.py:226, the text of the LAND event: two kanji,
\* " (", two kanji, ": ", the joined names and ")".
LandText(names) ==
    <<"U+7740", "U+9678", " ", "(", "U+5BFE", "U+8C61", ":", " ">>
        \o JoinNames(names, 1) \o <<")">>

\* Exact membership in the list of names, which line 326 does not test.
NamedExactly(c, text) == \E i \in 1..Len(text.who) : text.who[i] = c

\* line 326: "c_name in target_text", a test for a substring of the text
NameInText(c, text) == Contains(Spelled(c), LandText(text.who))

\* lines 325-330: one thread per controller named in the LAND text
RECURSIVE LandThreads(_, _)
LandThreads(e, i) ==
    IF i > Len(DroneOrder) THEN <<>>
    ELSE (IF DroneOrder[i] \in controllers /\ NameInText(DroneOrder[i], e.text)
          THEN <<[target |-> DroneOrder[i], command |-> e.command]>> ELSE <<>>)
            \o LandThreads(e, i + 1)

\* Mutant: a stop_all command is passed over like a WAIT event.
RECURSIVE StopAllPassedOver(_, _)
StopAllPassedOver(events, threads) ==
    IF events = <<>> THEN [outcome |-> "continue", threads |-> threads]
    ELSE LET e == Head(events)
         IN  CASE e.type = "COMMAND" /\ IsStopAll(e) ->
                      StopAllPassedOver(Tail(events), threads)
               [] e.type = "COMMAND" /\ (e.target = NoKey \/ e.command = NoKey) ->
                      [outcome |-> "raise", threads |-> <<>>]
               [] e.type = "COMMAND" ->
                      StopAllPassedOver(Tail(events),
                          IF e.target \in controllers
                          THEN Append(threads, [target |-> e.target, command |-> e.command])
                          ELSE threads)
               [] e.type = "LAND" ->
                      StopAllPassedOver(Tail(events), threads \o LandThreads(e, 1))
               [] OTHER -> StopAllPassedOver(Tail(events), threads)

\* _process_events, lines 279-336: what the loop over events_to_run comes to.
\* threads are the threads to start; they are started only when the loop over
\* the events ends normally.
RECURSIVE process_events(_, _)
process_events(events, threads) ==
    IF events = <<>> THEN [outcome |-> "continue", threads |-> threads]
    ELSE LET e == Head(events)
         IN  CASE e.type = "COMMAND" /\ IsStopAll(e) ->
                      [outcome |-> "stop", threads |-> <<>>]
               [] e.type = "COMMAND" /\ (e.target = NoKey \/ e.command = NoKey) ->
                      [outcome |-> "raise", threads |-> <<>>]
               [] e.type = "COMMAND" ->
                      process_events(Tail(events),
                          IF e.target \in controllers
                          THEN Append(threads, [target |-> e.target, command |-> e.command])
                          ELSE threads)
               [] e.type = "LAND" ->
                      process_events(Tail(events), threads \o LandThreads(e, 1))
               [] OTHER -> process_events(Tail(events), threads)

\* Mutant: the cleanup is the last statement of the try block, not a finally.
ExceptionSkipsCleanup == "done"

\* lines 127-138: an exception is logged, then the finally clause runs
ExceptionTarget == "cleanup_spawn"

\* line 245
StopSeenAtLoopTop == stop_event

\* Mutant: the flag is not looked at after the sleep.
StopNotCheckedAfterSleep == FALSE

\* line 253
StopSeenAfterSleep == stop_event

\* Mutant: _process_events joins the threads it started.
AwaitsEverySend == controllers

\* lines 332-336: the threads are started and not joined, so the loop waits
\* for the sends of no controller
AwaitedSends == {}

NoThreads == [c \in Drones |-> "none"]

\* one thread per controller, lines 225-230 and 369-374
ThreadsStarted == [c \in Drones |-> IF c \in controllers THEN "started" ELSE "none"]

\* Mutant: the barrier lets the show thread on as soon as one thread is back.
FirstJoined == \E c \in controllers : joined[c] = "returned"

\* lines 231-232 and 375-376: for t in threads: t.join()
AllJoined == \A c \in controllers : joined[c] = "returned"

\* the command of the threads being joined
JoinedCommand == IF spc = "init_join" THEN initial_commands[cmd_idx] ELSE "land"

RECURSIVE CountTo(_, _)
CountTo(threads, c) ==
    IF threads = <<>> THEN 0
    ELSE (IF Head(threads).target = c THEN 1 ELSE 0) + CountTo(Tail(threads), c)

RECURSIVE Stamp(_, _, _)
Stamp(threads, idx, t) ==
    IF threads = <<>> THEN <<>>
    ELSE <<[idx |-> idx, time |-> t, target |-> Head(threads).target,
            command |-> Head(threads).command]>> \o Stamp(Tail(threads), idx, t)

InitShow ==
    /\ IdleParse
    /\ IdleTraverse
    /\ IdleSend
    /\ NoEarlierCall
    /\ IdleGui
    /\ mode \in {"run_show", "worker"}
    /\ drones_config \in {{"A"}, {"A", "B"}, {"ALL", "BALL"}}
    /\ show_schedule \in ShowSchedules
    /\ controllers = IF mode = "run_show" THEN ConnectedControllers ELSE {}
    /\ mode = "run_show" => controllers # {}
    /\ stop_event = FALSE
    /\ spc = "start"
    /\ cmd_idx = 1
    /\ off_idx = 1
    /\ processed = 0
    /\ joined = NoThreads
    /\ inflight = [c \in Drones |-> 0]
    /\ dispatched = <<>>
    /\ calls = {}
    /\ returned_calls = {}
    /\ closed = {}
    /\ raised = FALSE
    /\ stop_seen = [set |-> FALSE, idx |-> 0, armed |-> FALSE, at |-> "nowhere", cmd |-> 0]
    /\ completion = [end_wait_time |-> 0, slept |-> FALSE, done |-> FALSE]

\* run_show lines 108-110; run_show_worker lines 152-187
Start ==
    /\ spc = "start"
    /\ IF mode = "worker"
       THEN /\ controllers' = WorkerControllers
            /\ spc' = IF WorkerControllers = {} /\ show_schedule # <<>>
                      THEN "cleanup_spawn" ELSE "init_check"
       ELSE /\ spc' = "init_check"
            /\ UNCHANGED controllers
    /\ UNCHANGED <<mode, drones_config, completion, show_schedule, stop_event, cmd_idx, off_idx,
                   processed, joined, inflight, dispatched, calls, returned_calls, closed, raised,
                   stop_seen>>
    /\ UNCHANGED notRunner

\* Mutant: the loop over the initial commands does not look at the flag.
InitCheckBlind ==
    /\ spc = "init_check"
    /\ spc' = IF cmd_idx > Len(initial_commands) THEN "takeoff_check" ELSE "init_spawn"
    /\ UNCHANGED <<mode, drones_config, completion, show_schedule, controllers, stop_event, cmd_idx,
                   off_idx, processed, joined, inflight, dispatched, calls, returned_calls, closed,
                   raised, stop_seen>>
    /\ UNCHANGED notRunner

\* _execute_initial_commands, lines 216-218: the loop head and the flag check
InitCheck ==
    /\ spc = "init_check"
    /\ spc' = IF cmd_idx > Len(initial_commands) \/ stop_event
              THEN "takeoff_check" ELSE "init_spawn"
    /\ UNCHANGED <<mode, drones_config, completion, show_schedule, controllers, stop_event, cmd_idx,
                   off_idx, processed, joined, inflight, dispatched, calls, returned_calls, closed,
                   raised, stop_seen>>
    /\ UNCHANGED notRunner

\* lines 225-230: a thread per controller is started
InitSpawn ==
    /\ spc = "init_spawn"
    /\ joined' = ThreadsStarted
    /\ spc' = "init_join"
    /\ UNCHANGED <<mode, drones_config, completion, show_schedule, controllers, stop_event, cmd_idx,
                   off_idx, processed, inflight, dispatched, calls, returned_calls, closed, raised,
                   stop_seen>>
    /\ UNCHANGED notRunner

\* TelloController.send_command in a joined thread, lines 145-152 of
\* core/tello_controller.py: the call is made; sendto succeeds or raises
JoinedSendBegin(c) ==
    /\ joined[c] = "started"
    /\ calls' = calls \cup {<<c, JoinedCommand>>}
    /\ \E sent \in BOOLEAN :
          /\ joined' = [joined EXCEPT ![c] = IF sent THEN "waiting" ELSE "returned"]
          /\ returned_calls' = IF sent THEN returned_calls
                                ELSE returned_calls \cup {<<c, JoinedCommand>>}
    /\ UNCHANGED <<mode, drones_config, completion, show_schedule, controllers, stop_event, spc,
                   cmd_idx, off_idx, processed, inflight, dispatched, closed, raised,
                   stop_seen>>
    /\ UNCHANGED notRunner

\* send_command, lines 154-183: a reply, the timeout or the controller's stop
JoinedSendReturn(c) ==
    /\ joined[c] = "waiting"
    /\ joined' = [joined EXCEPT ![c] = "returned"]
    /\ returned_calls' = returned_calls \cup {<<c, JoinedCommand>>}
    /\ UNCHANGED <<mode, drones_config, completion, show_schedule, controllers, stop_event, spc,
                   cmd_idx, off_idx, processed, inflight, dispatched, calls, closed,
                   raised, stop_seen>>
    /\ UNCHANGED notRunner

\* lines 231-236: every thread is joined, then the settle sleep
InitJoin ==
    /\ spc = "init_join"
    /\ AllJoined
    /\ joined' = NoThreads
    /\ cmd_idx' = cmd_idx + 1
    /\ spc' = "init_check"
    /\ UNCHANGED <<mode, drones_config, completion, show_schedule, controllers, stop_event, off_idx,
                   processed, inflight, dispatched, calls, returned_calls, closed, raised, stop_seen>>
    /\ UNCHANGED notRunner

\* run_show lines 115-116 (run_show_worker 192-193)
TakeoffCheck ==
    /\ spc = "takeoff_check"
    /\ IF stop_event
       THEN raised' = TRUE /\ spc' = ExceptionTarget
       ELSE raised' = raised /\ spc' = "loop_top"
    /\ UNCHANGED <<mode, drones_config, completion, show_schedule, controllers, stop_event, cmd_idx,
                   off_idx, processed, joined, inflight, dispatched, calls, returned_calls, closed,
                   stop_seen>>
    /\ UNCHANGED notRunner

\* _execute_schedule, lines 244-251: the loop head, its flag check, the sleep
LoopTop ==
    /\ spc = "loop_top"
    /\ \A c \in AwaitedSends : inflight[c] = 0
    /\ spc' = IF off_idx > Len(all_event_times) \/ StopSeenAtLoopTop
              THEN "final_wait" ELSE "after_sleep"
    /\ UNCHANGED <<mode, drones_config, completion, show_schedule, controllers, stop_event, cmd_idx,
                   off_idx, processed, joined, inflight, dispatched, calls, returned_calls, closed,
                   raised, stop_seen>>
    /\ UNCHANGED notRunner

\* lines 253-263: the flag check after the sleep
AfterSleep ==
    /\ spc = "after_sleep"
    /\ spc' = IF StopSeenAfterSleep THEN "final_wait" ELSE "process"
    /\ UNCHANGED <<mode, drones_config, completion, show_schedule, controllers, stop_event, cmd_idx,
                   off_idx, processed, joined, inflight, dispatched, calls, returned_calls, closed,
                   raised, stop_seen>>
    /\ UNCHANGED notRunner

\* lines 266-267 with _process_events
ProcessOffset ==
    /\ spc = "process"
    /\ processed' = processed + 1
    /\ LET exec_time == all_event_times[off_idx]
           out == process_events(EventsToRun(exec_time), <<>>)
       IN  CASE out.outcome = "raise" ->
                    /\ raised' = TRUE
                    /\ spc' = ExceptionTarget
                    /\ UNCHANGED <<stop_event, stop_seen, off_idx, inflight, dispatched>>
             [] out.outcome = "stop" ->
                    /\ stop_event' = TRUE
                    /\ stop_seen' = IF stop_event THEN stop_seen
                                    ELSE [set |-> TRUE, idx |-> off_idx, armed |-> FALSE,
                                          at |-> spc, cmd |-> cmd_idx]
                    /\ spc' = "final_wait"
                    /\ UNCHANGED <<raised, off_idx, inflight, dispatched>>
             [] OTHER ->
                    /\ dispatched' = dispatched \o Stamp(out.threads, off_idx, exec_time)
                    /\ inflight' = [c \in Drones |-> inflight[c] + CountTo(out.threads, c)]
                    /\ off_idx' = off_idx + 1
                    /\ spc' = "loop_top"
                    /\ UNCHANGED <<raised, stop_event, stop_seen>>
    /\ UNCHANGED <<mode, drones_config, completion, show_schedule, controllers, cmd_idx, joined,
                   calls, returned_calls, closed>>
    /\ UNCHANGED notRunner

\* a send thread started by _process_events returns
MidSendReturn(c) ==
    /\ inflight[c] > 0
    /\ inflight' = [inflight EXCEPT ![c] = inflight[c] - 1]
    /\ UNCHANGED <<mode, drones_config, completion, show_schedule, controllers, stop_event, spc,
                   cmd_idx, off_idx, processed, joined, dispatched, calls, returned_calls, closed,
                   raised, stop_seen>>
    /\ UNCHANGED notRunner

\* line 341, end_wait_time = (start_time + total_time) - time.time() in
\* milliseconds: the clock may be before, at or past the end of the show.
EndWaitTimes == {0 - LAND_EPSILON, 0, FLIP_DURATION}

\* Mutant: the sleep does not look at the flag.
SleepsWhenPositive(end_wait_time) == end_wait_time > 0

\* line 343: whether time.sleep(end_wait_time) of line 350 runs
Sleeps(end_wait_time) == end_wait_time > 0 /\ ~stop_event

\* _wait_for_completion, lines 339-358
FinalWait ==
    /\ spc = "final_wait"
    /\ \E w \in EndWaitTimes :
            completion' = [end_wait_time |-> w, slept |-> Sleeps(w), done |-> TRUE]
    /\ spc' = "cleanup_spawn"
    /\ UNCHANGED <<mode, drones_config, show_schedule, controllers, stop_event, cmd_idx,
                   off_idx, processed, joined, inflight, dispatched, calls, returned_calls, closed,
                   raised, stop_seen>>
    /\ UNCHANGED notRunner

\* _cleanup_controllers, lines 363-374: a land thread per controller
CleanupSpawn ==
    /\ spc = "cleanup_spawn"
    /\ joined' = ThreadsStarted
    /\ spc' = "cleanup_join"
    /\ UNCHANGED <<mode, drones_config, completion, show_schedule, controllers, stop_event, cmd_idx,
                   off_idx, processed, inflight, dispatched, calls, returned_calls, closed, raised,
                   stop_seen>>
    /\ UNCHANGED notRunner

\* lines 375-376
CleanupJoin ==
    /\ spc = "cleanup_join"
    /\ AllJoined
    /\ spc' = "close"
    /\ UNCHANGED <<mode, drones_config, completion, show_schedule, controllers, stop_event, cmd_idx,
                   off_idx, processed, joined, inflight, dispatched, calls, returned_calls, closed,
                   raised, stop_seen>>
    /\ UNCHANGED notRunner

\* lines 379-385: every controller is closed, show_complete is queued
CloseAll ==
    /\ spc = "close"
    /\ closed' = controllers
    /\ spc' = "done"
    /\ UNCHANGED <<mode, drones_config, completion, show_schedule, controllers, stop_event, cmd_idx,
                   off_idx, processed, joined, inflight, dispatched, calls, returned_calls, raised,
                   stop_seen>>
    /\ UNCHANGED notRunner

\* TelloApp.emergency_stop, src/src/gui/main_window.py lines 1093-1107, on the
\* GUI thread while the show thread runs
emergency_stop ==
    /\ spc # "done"
    /\ ~stop_event
    /\ stop_event' = TRUE
    /\ stop_seen' = [set |-> TRUE, idx |-> off_idx, armed |-> spc = "process",
                     at |-> spc, cmd |-> cmd_idx]
    /\ UNCHANGED <<mode, drones_config, completion, show_schedule, controllers, spc, cmd_idx,
                   off_idx, processed, joined, inflight, dispatched, calls, returned_calls, closed,
                   raised>>
    /\ UNCHANGED notRunner

ShowThreadStep ==
    \/ Start
    \/ InitCheck
    \/ InitSpawn
    \/ InitJoin
    \/ TakeoffCheck
    \/ LoopTop
    \/ AfterSleep
    \/ ProcessOffset
    \/ FinalWait
    \/ CleanupSpawn
    \/ CleanupJoin
    \/ CloseAll

SendThreadStep ==
    \E c \in Drones : JoinedSendBegin(c) \/ JoinedSendReturn(c) \/ MidSendReturn(c)

NextShow == ShowThreadStep \/ SendThreadStep \/ emergency_stop

SpecShow == InitShow /\ [][NextShow]_vars

\* ===================================================== the block interpreter
\* ScratchProjectParser._get_input_value, _find_procedure_definitions_for_target
\* and _parse_sprite_to_actions of src/src/core/scratch_parser.py, run on the
\* targets of project.json.  A Scratch number is kept in tenths (20 is 200,
\* 1.5 is 15); block ids are numbers, 0 standing for None.

\* What json.load delivers where a number is expected: a numeric string, a
\* string that is no number, null, or nothing (the list or dict ends before it).
NumText(v) == [kind |-> "num", num |-> v]
BadText == [kind |-> "text", num |-> 0]
NullText == [kind |-> "null", num |-> 0]
AbsentText == [kind |-> "absent", num |-> 0]

\* try: float(x) / except (ValueError, TypeError): 0.0
FloatOrZero(text) == IF text.kind = "num" THEN text.num ELSE 0

\* An input slot of a block, block_input.
\* inputs.get(name) is None
NoSlot == [itype |-> 0, form |-> "none", text |-> AbsentText, block |-> 0, var |-> NoKey]
\* [t, [4, text]]; with AbsentText it is [t, [4]]
Literal(t, text) == [itype |-> t, form |-> "list", text |-> text, block |-> 0, var |-> NoKey]
\* [t, [12, name, id]] or, with t = 3, [3, [12, name, id], [4, "0"]]; the name is no number
VarRef(t, id) == [itype |-> t, form |-> "var", text |-> BadText, block |-> 0, var |-> id]
\* [t, "block id"] or, with t = 3, [3, "block id", [4, "0"]]
BlockRef(t, id) == [itype |-> t, form |-> "ref", text |-> AbsentText, block |-> id, var |-> NoKey]
\* [1]: a slot cut short
CutSlot == [itype |-> 1, form |-> "cut", text |-> AbsentText, block |-> 0, var |-> NoKey]

\* dict.get(key, 0.0)
GetOrZero(d, key) == IF key \in DOMAIN d THEN d[key] ELSE 0

Resolved(v) == [value |-> v, raises |-> FALSE]
\* an IndexError or KeyError that no except clause of the function catches
Unresolved == [value |-> 0, raises |-> TRUE]

\* _get_input_value, lines 23-48
get_input_value(block_input, table, variable_state, custom_block_args) ==
    CASE block_input.form = "none" -> Resolved(0)
      [] block_input.form = "cut" -> Unresolved
      [] block_input.itype \in {1, 2} /\ block_input.form \in {"list", "var"} ->
            IF block_input.text.kind = "absent" THEN Unresolved
            ELSE Resolved(FloatOrZero(block_input.text))
      [] block_input.itype \in {1, 2} /\ block_input.form = "ref" ->
            IF block_input.block \notin DOMAIN table THEN Resolved(0)
            ELSE LET ref_block == table[block_input.block]
                 IN  CASE ref_block.shape # "dict" -> Resolved(0)
                       [] ref_block.opcode = "argument_reporter_string_number" ->
                             IF ref_block.fields.VALUE = NoKey THEN Unresolved
                             ELSE Resolved(GetOrZero(custom_block_args, ref_block.fields.VALUE))
                       [] ref_block.opcode = "math_number" ->
                             IF ref_block.fields.NUM.kind = "absent" THEN Unresolved
                             ELSE Resolved(FloatOrZero(ref_block.fields.NUM))
                       [] OTHER -> Resolved(0)
      [] block_input.itype = 3 /\ block_input.form = "var" ->
            Resolved(GetOrZero(variable_state, block_input.var))
      [] OTHER -> Resolved(0)

\* ---------------------------------------------------------- block tables

NoFields ==
    [VARIABLE |-> NoKey, VALUE |-> NoKey, NUM |-> AbsentText,
     BROADCAST_OPTION |-> NoKey, STOP_OPTION |-> NoKey]
NoMutation == [proccode |-> NoKey, argumentids |-> <<>>, argumentnames |-> <<>>]

\* block.get('inputs', {}).get(name)
InputOf(block, name) ==
    IF name \in DOMAIN block.inputs THEN block.inputs[name] ELSE NoSlot

\* An entry of a 'blocks' dict that is a block record.
Block(opcode, next, inputs, fields, mutation) ==
    [shape |-> "dict", opcode |-> opcode, next |-> next, inputs |-> inputs,
     fields |-> fields, mutation |-> mutation]
\* An entry that is a list, as Scratch stores a free-standing variable reporter.
ListEntry ==
    [shape |-> "list", opcode |-> NoKey, next |-> 0, inputs |-> <<>>,
     fields |-> NoFields, mutation |-> NoMutation]

Num(n) == Literal(1, NumText(n))

\* The block ids of a target start at its base.
Base(name) == CASE name = "Stage" -> 0 [] name = "A" -> 100 [] OTHER -> 200

\* The project's variables with their initial texts ('variables' of the
\* targets): v is 1.0, d is 20.0, w holds a word.
ProjectVariables == ("v" :> NumText(10)) @@ ("d" :> NumText(200)) @@ ("w" :> BadText)

\* The custom block "r %s" with the parameter m, whose body calls the custom
\* block "s %s %s" with the parameters k and j:
\*   define r (m):  s (m) (v);  wait (m);  wait (k);  set size to 120
\*   define s (k) (j):  wait (m);  wait (k);  change v by (j);  change size by (k)
Reporter(name) ==
    Block("argument_reporter_string_number", 0, <<>>, [NoFields EXCEPT !.VALUE = name],
          NoMutation)
Nested(b) ==
        ((b + 80) :> Block("procedures_definition", b + 82,
                           "custom_block" :> BlockRef(1, b + 81), NoFields, NoMutation))
     @@ ((b + 81) :> Block("procedures_prototype", 0, <<>>, NoFields,
                           [proccode |-> "r %s", argumentids |-> <<"arg1">>,
                            argumentnames |-> <<"m">>]))
     @@ ((b + 82) :> Block("procedures_call", b + 83,
                           ("a1" :> BlockRef(1, b + 86)) @@ ("a2" :> VarRef(3, "v")),
                           NoFields,
                           [proccode |-> "s %s %s", argumentids |-> <<"a1", "a2">>,
                            argumentnames |-> <<>>]))
     @@ ((b + 83) :> Block("control_wait", b + 84, "DURATION" :> BlockRef(1, b + 86),
                           NoFields, NoMutation))
     @@ ((b + 84) :> Block("control_wait", b + 85, "DURATION" :> BlockRef(1, b + 87),
                           NoFields, NoMutation))
     @@ ((b + 85) :> Block("looks_setsizeto", 0, "SIZE" :> Num(1200), NoFields, NoMutation))
     @@ ((b + 86) :> Reporter("m"))
     @@ ((b + 87) :> Reporter("k"))
     @@ ((b + 88) :> Reporter("j"))
     @@ ((b + 90) :> Block("procedures_definition", b + 92,
                           "custom_block" :> BlockRef(1, b + 91), NoFields, NoMutation))
     @@ ((b + 91) :> Block("procedures_prototype", 0, <<>>, NoFields,
                           [proccode |-> "s %s %s", argumentids |-> <<"a1", "a2">>,
                            argumentnames |-> <<"k", "j">>]))
     @@ ((b + 92) :> Block("control_wait", b + 93, "DURATION" :> BlockRef(1, b + 86),
                           NoFields, NoMutation))
     @@ ((b + 93) :> Block("control_wait", b + 94, "DURATION" :> BlockRef(1, b + 87),
                           NoFields, NoMutation))
     @@ ((b + 94) :> Block("data_changevariableby", b + 95, "VALUE" :> BlockRef(1, b + 88),
                           [NoFields EXCEPT !.VARIABLE = "v"], NoMutation))
     @@ ((b + 95) :> Block("looks_changesizeby", 0, "CHANGE" :> BlockRef(2, b + 87),
                           NoFields, NoMutation))

\* Blocks every sprite of the model has besides its script: reporters, a list
\* entry, a loop body of one block (60) and one of two blocks (61, 62: change
\* v by 2, wait v seconds), and the custom block "p %s" with one parameter n.
Library(name) ==
    LET b == Base(name)
    IN  ((b + 50) :> Block("math_number", 0, <<>>, [NoFields EXCEPT !.NUM = NumText(200)], NoMutation))
     @@ ((b + 51) :> Block("math_number", 0, <<>>, [NoFields EXCEPT !.NUM = BadText], NoMutation))
     @@ ((b + 52) :> Block("math_number", 0, <<>>, NoFields, NoMutation))
     @@ ((b + 53) :> Block("argument_reporter_string_number", 0, <<>>,
                           [NoFields EXCEPT !.VALUE = "n"], NoMutation))
     @@ ((b + 54) :> Block("argument_reporter_string_number", 0, <<>>, NoFields, NoMutation))
     @@ ((b + 55) :> ListEntry)
     @@ ((b + 56) :> Block("operator_add", 0, <<>>, NoFields, NoMutation))
     @@ ((b + 57) :> Block("event_broadcast_menu", 0, <<>>,
                           [NoFields EXCEPT !.BROADCAST_OPTION = "flip l"], NoMutation))
     @@ ((b + 58) :> Block("event_broadcast_menu", 0, <<>>,
                           [NoFields EXCEPT !.BROADCAST_OPTION = "hello"], NoMutation))
     @@ ((b + 60) :> Block("looks_changesizeby", 0, "CHANGE" :> Num(200), NoFields, NoMutation))
     @@ ((b + 61) :> Block("data_changevariableby", b + 62, "VALUE" :> Num(20),
                           [NoFields EXCEPT !.VARIABLE = "v"], NoMutation))
     @@ ((b + 62) :> Block("control_wait", 0, "DURATION" :> VarRef(3, "v"),
                           NoFields, NoMutation))
     @@ ((b + 70) :> Block("procedures_definition", b + 72,
                           "custom_block" :> BlockRef(1, b + 71), NoFields, NoMutation))
     @@ ((b + 71) :> Block("procedures_prototype", 0, <<>>, NoFields,
                           [proccode |-> "p %s", argumentids |-> <<"arg1">>,
                            argumentnames |-> <<"n">>]))
     @@ ((b + 72) :> Block("motion_movesteps", b + 73,
                           "STEPS" :> BlockRef(3, b + 53), NoFields, NoMutation))
     @@ ((b + 73) :> Block("looks_changesizeby", 0,
                           "CHANGE" :> BlockRef(2, b + 53), NoFields, NoMutation))
     @@ Nested(b)

Steps(next, slot) == Block("motion_movesteps", next, "STEPS" :> slot, NoFields, NoMutation)
GoTo(next, x, y) ==
    Block("motion_gotoxy", next, ("X" :> Num(x)) @@ ("Y" :> Num(y)), NoFields, NoMutation)
Wait(next, slot) == Block("control_wait", next, "DURATION" :> slot, NoFields, NoMutation)
Repeat(next, times, substack) ==
    Block("control_repeat", next, ("TIMES" :> times) @@ ("SUBSTACK" :> substack),
          NoFields, NoMutation)

\* The script blocks of the model, by name; next is the id of the successor.
ScriptBlock(name, kind, next) ==
    LET b == Base(name)
    IN  CASE kind = "x20" -> GoTo(next, 200, 0)
          [] kind = "x19" -> GoTo(next, 190, 0)
          [] kind = "y-20" -> GoTo(next, 0, -200)
          [] kind = "y19" -> GoTo(next, 0, 190)
          [] kind = "steps20" -> Steps(next, Num(200))
          [] kind = "steps-19" -> Steps(next, Num(-190))
          [] kind = "steps19.9" -> Steps(next, Num(199))
          [] kind = "steps25.5" -> Steps(next, Num(255))
          [] kind = "size100" ->
                Block("looks_setsizeto", next, "SIZE" :> Num(1000), NoFields, NoMutation)
          [] kind = "size61" ->
                Block("looks_setsizeto", next, "SIZE" :> Num(610), NoFields, NoMutation)
          [] kind = "change-20" ->
                Block("looks_changesizeby", next, "CHANGE" :> Num(-200), NoFields, NoMutation)
          [] kind = "change19" ->
                Block("looks_changesizeby", next, "CHANGE" :> Num(190), NoFields, NoMutation)
          [] kind = "wait1" -> Wait(next, Num(10))
          [] kind = "wait0" -> Wait(next, Num(0))
          [] kind = "wait-1" -> Wait(next, Num(-10))
          [] kind = "wait_v" -> Wait(next, VarRef(3, "v"))
          [] kind = "set_v3" ->
                Block("data_setvariableto", next, "VALUE" :> Num(30),
                      [NoFields EXCEPT !.VARIABLE = "v"], NoMutation)
          [] kind = "change_v2" ->
                Block("data_changevariableby", next, "VALUE" :> Num(20),
                      [NoFields EXCEPT !.VARIABLE = "v"], NoMutation)
          [] kind = "set_nofields" ->
                Block("data_setvariableto", next, "VALUE" :> Num(30), NoFields, NoMutation)
          [] kind = "stop_all" ->
                Block("control_stop", next, <<>>, [NoFields EXCEPT !.STOP_OPTION = "all"],
                      NoMutation)
          [] kind = "turn90" ->
                Block("motion_turnright", next, "DEGREES" :> Num(900), NoFields, NoMutation)
          [] kind = "flip" ->
                Block("event_broadcast", next, "BROADCAST_INPUT" :> BlockRef(1, b + 57),
                      NoFields, NoMutation)
          [] kind = "hello" ->
                Block("event_broadcast", next, "BROADCAST_INPUT" :> BlockRef(1, b + 58),
                      NoFields, NoMutation)
          [] kind = "call20" ->
                Block("procedures_call", next, "arg1" :> Num(200), NoFields,
                      [proccode |-> "p %s", argumentids |-> <<"arg1">>,
                       argumentnames |-> <<>>])
          [] kind = "call_r20" ->
                Block("procedures_call", next, "arg1" :> Num(200), NoFields,
                      [proccode |-> "r %s", argumentids |-> <<"arg1">>,
                       argumentnames |-> <<>>])
          [] kind = "call_unknown" ->
                Block("procedures_call", next, "arg1" :> Num(200), NoFields,
                      [proccode |-> "q %s", argumentids |-> <<"arg1">>,
                       argumentnames |-> <<>>])
          [] kind = "repeat2" ->
                Block("control_repeat", next,
                      ("TIMES" :> Num(20)) @@ ("SUBSTACK" :> BlockRef(2, b + 60)),
                      NoFields, NoMutation)
          [] kind = "repeat_v" -> Repeat(next, VarRef(3, "v"), BlockRef(2, b + 61))
          [] kind = "repeat0" -> Repeat(next, Num(0), BlockRef(2, b + 61))
          [] kind = "repeat-1" -> Repeat(next, Num(-10), BlockRef(2, b + 61))
          [] kind = "repeat2.5" -> Repeat(next, Num(25), BlockRef(2, b + 61))
          [] kind = "repeat_null" -> Repeat(next, Num(20), BlockRef(1, 0))
          [] kind = "repeat_nobody" ->
                Block("control_repeat", next, "TIMES" :> Num(20), NoFields, NoMutation)
          [] kind = "forever_v" ->
                Block("control_forever", next, "SUBSTACK" :> BlockRef(2, b + 61),
                      NoFields, NoMutation)
          [] kind = "forever" ->
                Block("control_forever", next, "SUBSTACK" :> BlockRef(2, b + 60),
                      NoFields, NoMutation)
          [] kind = "steps_math" -> Steps(next, BlockRef(1, b + 50))
          [] kind = "steps_mathbad" -> Steps(next, BlockRef(1, b + 51))
          [] kind = "steps_mathcut" -> Steps(next, BlockRef(1, b + 52))
          [] kind = "steps_arg" -> Steps(next, BlockRef(1, b + 53))
          [] kind = "steps_argcut" -> Steps(next, BlockRef(1, b + 54))
          [] kind = "steps_list" -> Steps(next, BlockRef(1, b + 55))
          [] kind = "steps_other" -> Steps(next, BlockRef(2, b + 56))
          [] kind = "steps_gone" -> Steps(next, BlockRef(1, b + 99))
          [] kind = "steps_text" -> Steps(next, Literal(1, BadText))
          [] kind = "steps_null" -> Steps(next, Literal(1, NullText))
          [] kind = "steps_short" -> Steps(next, Literal(1, AbsentText))
          [] kind = "steps_cut" -> Steps(next, CutSlot)
          [] kind = "steps_none" ->
                Block("motion_movesteps", next, <<>>, NoFields, NoMutation)
          [] kind = "steps_d" -> Steps(next, VarRef(3, "d"))
          [] kind = "steps_unknown" -> Steps(next, VarRef(3, "zz"))
          [] kind = "def_list" ->
                Block("procedures_definition", next, "custom_block" :> BlockRef(1, b + 55),
                      NoFields, NoMutation)
          [] kind = "shadow" -> Wait(0, Num(50))
          [] kind = "next_list" -> Wait(b + 55, Num(10))
          [] OTHER -> Wait(b + 99, Num(10))

\* The script blocks a script of the model may consist of alone.
ScriptKinds ==
    {"x20", "x19", "y-20", "y19", "steps20", "steps-19", "steps19.9", "steps25.5",
     "size100",
     "size61", "change-20", "change19", "wait1", "wait0", "wait-1", "wait_v", "set_v3",
     "change_v2", "set_nofields", "stop_all", "turn90", "flip", "hello", "call20",
     "call_unknown", "repeat2", "forever", "steps_math", "steps_mathbad",
     "steps_mathcut", "steps_arg", "steps_argcut", "steps_list", "steps_other",
     "steps_gone", "steps_text", "steps_null", "steps_short", "steps_cut",
     "steps_none", "steps_d", "steps_unknown", "def_list", "next_list", "next_gone"}

\* The script blocks the longer scripts of the model are made of.
ChainKinds ==
    {"x19", "steps20", "size61", "change19", "wait1", "wait_v", "set_v3",
     "change_v2", "stop_all", "call20"}

\* The loop blocks, each with a block before it, after it, or both.
LoopKinds ==
    {"repeat_v", "repeat0", "repeat-1", "repeat2.5", "repeat_null", "repeat_nobody",
     "forever_v"}
LoopChains ==
    {<<k>> : k \in LoopKinds}
        \cup {<<"set_v3", k>> : k \in LoopKinds}
        \cup {<<k, "wait_v">> : k \in LoopKinds}
        \cup {<<"set_v3", k, "wait_v">> : k \in LoopKinds}

\* The calls of custom blocks, each with a block before it, after it, or both.
CallKinds == {"call_r20", "call_unknown"}
CallChains ==
    {<<k>> : k \in CallKinds}
        \cup {<<"set_v3", k>> : k \in CallKinds}
        \cup {<<k, "wait_v">> : k \in CallKinds}
        \cup {<<"set_v3", k, "wait_v">> : k \in CallKinds}

\* A sprite's script: whether a flag-click block heads it, and its blocks.
NoChain == [flag |-> FALSE, chain |-> <<>>]
Chains ==
    {NoChain}
        \cup [flag : {TRUE},
              chain : SeqsUpTo(ChainKinds, MaxBlocks) \cup {<<k>> : k \in ScriptKinds}
                        \cup LoopChains \cup CallChains]
\* The scripts of the second sprite.
OtherChains ==
    {NoChain} \cup [flag : {TRUE},
                    chain : {<<>>, <<"wait_v">>, <<"set_v3">>, <<"steps20", "wait1">>}]

\* A table that holds, besides the sprite's library, one block ("wait 5
\* seconds") under the id the first script block of the other sprite has.
ShadowChain == [flag |-> FALSE, chain |-> <<"shadow">>]
OtherSprite(name) == IF name = "A" THEN "B" ELSE "A"

\* The entries of a script: the flag-click block at base + 1, then its chain.
RECURSIVE ChainBlocks(_, _, _)
ChainBlocks(name, chain, i) ==
    IF i > Len(chain) THEN <<>>
    ELSE ((IF chain[i] = "shadow" THEN Base(OtherSprite(name)) + 2
           ELSE Base(name) + 1 + i) :>
            ScriptBlock(name, chain[i],
                        IF i = Len(chain) THEN 0 ELSE Base(name) + 2 + i))
            @@ ChainBlocks(name, chain, i + 1)

\* target.get('blocks', {}) of a target of the project
TargetBlocks(name) ==
    LET script == IF IsStage(name) THEN [flag |-> TRUE, chain |-> <<"steps20">>]
                  ELSE project[name]
    IN  (IF script.flag
         THEN (Base(name) + 1) :>
                 Block("event_whenflagclicked",
                       IF script.chain = <<>> THEN 0 ELSE Base(name) + 2,
                       <<>>, NoFields, NoMutation)
         ELSE <<>>)
            @@ ChainBlocks(name, script.chain, 1)
            @@ Library(name)

\* line 186: the blocks of all targets in one dict, a later target's entry
\* replacing an earlier one's of the same id
RECURSIVE AllBlocksFrom(_)
AllBlocksFrom(i) ==
    IF i > Len(Targets) THEN <<>>
    ELSE AllBlocksFrom(i + 1) @@ TargetBlocks(Targets[i])

\* ------------------------------------------------- numbers and commands

\* int(x): truncation towards zero of a number kept in tenths
IntOf(v) == IF v >= 0 THEN v \div 10 ELSE -((-v) \div 10)

\* round(x): to the nearest whole number, a half going to the even one
Round(v) ==
    LET floor == v \div 10
        rest == v % 10
    IN  IF rest < 5 THEN floor
        ELSE IF rest > 5 THEN floor + 1
        ELSE IF floor % 2 = 0 THEN floor ELSE floor + 1

Abs(n) == IF n < 0 THEN -n ELSE n

\* f"{word} {n}"
Command(word, n) == word \o " " \o ToString(n)

\* Mutant: a move takes no time at all.
InstantMove(distance, speed) == 0

\* _calculate_realistic_duration, lines 244-247, in milliseconds
calculate_realistic_duration(distance, speed) ==
    IF distance = 0 THEN 0
    ELSE Max2((distance * 1000) \div speed + MOVE_TIME_OVERHEAD, MINIMUM_MOVE_TIME)

CommandAction(name, command, duration) ==
    [duration |-> duration, commands |-> <<[target |-> name, command |-> command]>>,
     is_wait |-> FALSE, sprite_name |-> name]

\* _pos_to_command, lines 249-252
pos_to_command(name, distance, direction_type) ==
    CommandAction(name,
        IF direction_type = "h"
        THEN Command(IF distance > 0 THEN "right" ELSE "left", Abs(distance))
        ELSE Command(IF distance > 0 THEN "forward" ELSE "back", Abs(distance)),
        calculate_realistic_duration(Abs(distance), TELLO_HORIZONTAL_SPEED_CMS))

\* _height_to_command, lines 254-256
height_to_command(name, distance) ==
    CommandAction(name, Command(IF distance > 0 THEN "up" ELSE "down", Abs(distance)),
        calculate_realistic_duration(Abs(distance), TELLO_VERTICAL_SPEED_CMS))

\* line 126, for degrees kept in tenths
TurnDurationOf(degrees) == TURN_BASE + (Abs(degrees) * TURN_PER_QUARTER) \div 900

\* ------------------------------------------------------ the traversal

\* _find_start_block, lines 237-242: the successor of the flag-click block;
\* entries that are no dict are passed over
find_start_block(table) ==
    LET heads == {id \in DOMAIN table :
                    /\ table[id].shape = "dict"
                    /\ table[id].opcode = "event_whenflagclicked"}
    IN  IF heads = {} THEN 0
        ELSE table[CHOOSE id \in heads : \A other \in heads : id <= other].next

\* _find_procedure_definitions_for_target, lines 58-81: the ids of the
\* definition table whose prototype is in all_blocks
DefinitionIds(table) ==
    {id \in DOMAIN table :
        /\ table[id].shape = "dict"
        /\ table[id].opcode = "procedures_definition"
        /\ InputOf(table[id], "custom_block").block # 0
        /\ InputOf(table[id], "custom_block").block \in DOMAIN all_blocks}

PrototypeOf(table, id) == all_blocks[InputOf(table[id], "custom_block").block]

\* line 70: prototype_block.get on an entry that is no dict
ProceduresRaise(table) ==
    \E id \in DefinitionIds(table) : PrototypeOf(table, id).shape # "dict"

find_procedure_definitions_for_target(table) ==
    LET named == {id \in DefinitionIds(table) :
                    PrototypeOf(table, id).mutation.proccode # NoKey}
        codes == {PrototypeOf(table, id).mutation.proccode : id \in named}
    IN  [code \in codes |->
            LET id == CHOOSE d \in named :
                        /\ PrototypeOf(table, d).mutation.proccode = code
                        /\ \A e \in named :
                              PrototypeOf(table, e).mutation.proccode = code => e <= d
            IN  [start_block_id |-> table[id].next,
                 arg_ids |-> PrototypeOf(table, id).mutation.argumentids,
                 arg_names |-> PrototypeOf(table, id).mutation.argumentnames]]

\* lines 188-193
InitialVariableState == [id \in DOMAIN ProjectVariables |-> FloatOrZero(ProjectVariables[id])]

\* The innermost active call of _traverse_blocks: the block it is at, its
\* custom_block_args, and for a loop body the passes still to come.
Top == frames[Len(frames)]
Frame(block_id, args, again) ==
    [block_id |-> block_id, args |-> args, again |-> again, restart |-> block_id]

CurrentName == Targets[target_idx]
AtBlock == tpc = "run" /\ frames # <<>> /\ Top.block_id \in DOMAIN all_blocks
CurrentBlock == all_blocks[Top.block_id]
AtOpcode(opcodes) ==
    AtBlock /\ CurrentBlock.shape = "dict" /\ CurrentBlock.opcode \in opcodes

\* self._get_input_value(inputs.get(name), all_blocks, current_vars, custom_block_args)
InputValue(name) ==
    get_input_value(InputOf(CurrentBlock, name), all_blocks, current_vars, Top.args)

\* Mutant: the innermost call stays at the block it has handled.
NotAdvanced == frames

\* current_block_id = block.get('next') in the innermost call
Advanced == [frames EXCEPT ![Len(frames)].block_id = CurrentBlock.next]

\* A nested call _traverse_blocks(block_id, (px, py, pz), current_vars,
\* custom_block_args) as it begins: the innermost of the calls, with what it
\* was given.
Entered(calls_now, pos, variables) ==
    [actor |-> CurrentName, depth |-> Len(calls_now),
     block_id |-> calls_now[Len(calls_now)].block_id,
     args |-> calls_now[Len(calls_now)].args, position |-> pos, vars |-> variables]

\* What handling one block comes to.
Same ==
    [raises |-> FALSE, frames |-> Advanced, position |-> position,
     vars |-> current_vars, actions |-> <<>>, moves |-> <<>>]
Fails == [Same EXCEPT !.raises = TRUE]

\* What a move block did on one axis: the change of the tracked position (in
\* tenths), the whole centimetres made of it, the commands appended.
Moved(axis, asked, delta, commands) ==
    [actor |-> CurrentName, block |-> Top.block_id, axis |-> axis, asked |-> asked,
     delta |-> delta, commands |-> commands]

\* lines 98-103
VariableBlock ==
    LET var_id == CurrentBlock.fields.VARIABLE
        value == InputValue("VALUE")
    IN  IF var_id = NoKey \/ value.raises THEN Fails
        ELSE [Same EXCEPT !.vars =
                (var_id :> (IF CurrentBlock.opcode = "data_setvariableto"
                            THEN value.value
                            ELSE GetOrZero(current_vars, var_id) + value.value))
                    @@ current_vars]

\* lines 113-117: the values of the call's arguments under the definition's names
RECURSIVE BoundArgs(_, _, _)
BoundArgs(arg_ids, arg_names, i) ==
    IF i > Len(arg_ids) THEN [raises |-> FALSE, args |-> <<>>]
    ELSE LET input_val == InputValue(arg_ids[i])
             rest == BoundArgs(arg_ids, arg_names, i + 1)
         IN  IF input_val.raises \/ rest.raises THEN [raises |-> TRUE, args |-> <<>>]
             ELSE [raises |-> FALSE,
                   args |-> IF i <= Len(arg_names)
                            THEN rest.args @@ (arg_names[i] :> input_val.value)
                            ELSE rest.args]

\* Mutant: the body of a custom block also sees the bindings of its caller.
CallKeepsBindings ==
    LET proccode == CurrentBlock.mutation.proccode
    IN  IF proccode \notin DOMAIN procedures THEN Same
        ELSE LET definition == procedures[proccode]
                 bound == BoundArgs(CurrentBlock.mutation.argumentids,
                                    definition.arg_names, 1)
             IN  IF bound.raises THEN Fails
                 ELSE [Same EXCEPT !.frames =
                         Append(Advanced, Frame(definition.start_block_id,
                                                bound.args @@ Top.args, 0))]

\* lines 105-120
CallBlock ==
    LET proccode == CurrentBlock.mutation.proccode
    IN  IF proccode \notin DOMAIN procedures THEN Same
        ELSE LET definition == procedures[proccode]
                 bound == BoundArgs(CurrentBlock.mutation.argumentids,
                                    definition.arg_names, 1)
             IN  IF bound.raises THEN Fails
                 ELSE [Same EXCEPT !.frames =
                         Append(Advanced, Frame(definition.start_block_id, bound.args, 0))]

\* lines 122-127
TurnBlock ==
    LET degrees == InputValue("DEGREES")
    IN  IF degrees.raises THEN Fails
        ELSE [Same EXCEPT !.actions =
                <<CommandAction(CurrentName,
                    Command(IF CurrentBlock.opcode = "motion_turnright" THEN "cw" ELSE "ccw",
                            IntOf(degrees.value)),
                    TurnDurationOf(degrees.value))>>]

\* _get_broadcast_message, lines 50-56
get_broadcast_message(block_input) ==
    IF block_input.itype = 1 /\ block_input.form = "ref"
           /\ block_input.block \in DOMAIN all_blocks
           /\ all_blocks[block_input.block].shape = "dict"
           /\ all_blocks[block_input.block].opcode = "event_broadcast_menu"
    THEN [raises |-> all_blocks[block_input.block].fields.BROADCAST_OPTION = NoKey,
          message |-> all_blocks[block_input.block].fields.BROADCAST_OPTION]
    ELSE [raises |-> block_input.form = "cut", message |-> ""]

\* lines 131-133, for messages in lower case
FlipMessages == {"flip l", "flip r", "flip f", "flip b"}

\* lines 129-135
BroadcastBlock ==
    LET got == get_broadcast_message(InputOf(CurrentBlock, "BROADCAST_INPUT"))
    IN  IF got.raises THEN Fails
        ELSE IF got.message \in FlipMessages
        THEN [Same EXCEPT !.actions =
                <<CommandAction(CurrentName, got.message, FLIP_DURATION)>>]
        ELSE Same

\* lines 146-149: the command of one axis, if the move is long enough
AxisActions(delta, direction_type) ==
    IF Abs(delta) >= MIN_TELLO_MOVE
    THEN <<pos_to_command(CurrentName, delta, direction_type)>> ELSE <<>>

\* Mutant: the tracked position follows only the moves that were commanded.
MoveBlockHolds ==
    LET goto == CurrentBlock.opcode = "motion_gotoxy"
        val_x == IF goto THEN InputValue("X") ELSE Resolved(position.x)
        val_y == IF goto THEN InputValue("Y") ELSE Resolved(0)
        steps == IF goto THEN Resolved(0) ELSE InputValue("STEPS")
        new_x == val_x.value
        new_y == IF goto THEN val_y.value ELSE position.y + steps.value
        dx == IntOf((new_x - position.x) * SCRATCH_TO_CM_RATE)
        dy == IntOf((new_y - position.y) * SCRATCH_TO_CM_RATE)
    IN  IF val_x.raises \/ val_y.raises \/ steps.raises THEN Fails
        ELSE [Same EXCEPT
                !.actions = AxisActions(dx, "h") \o AxisActions(dy, "v"),
                !.moves = <<Moved("h", new_x - position.x, dx, Len(AxisActions(dx, "h"))),
                            Moved("v", new_y - position.y, dy, Len(AxisActions(dy, "v")))>>,
                !.position = [position EXCEPT
                                !.x = IF AxisActions(dx, "h") = <<>> THEN @ ELSE new_x,
                                !.y = IF AxisActions(dy, "v") = <<>> THEN @ ELSE new_y]]

\* lines 137-150
MoveBlock ==
    LET goto == CurrentBlock.opcode = "motion_gotoxy"
        val_x == IF goto THEN InputValue("X") ELSE Resolved(position.x)
        val_y == IF goto THEN InputValue("Y") ELSE Resolved(0)
        steps == IF goto THEN Resolved(0) ELSE InputValue("STEPS")
        new_x == val_x.value
        new_y == IF goto THEN val_y.value ELSE position.y + steps.value
        dx == IntOf((new_x - position.x) * SCRATCH_TO_CM_RATE)
        dy == IntOf((new_y - position.y) * SCRATCH_TO_CM_RATE)
    IN  IF val_x.raises \/ val_y.raises \/ steps.raises THEN Fails
        ELSE [Same EXCEPT
                !.actions = AxisActions(dx, "h") \o AxisActions(dy, "v"),
                !.moves = <<Moved("h", new_x - position.x, dx, Len(AxisActions(dx, "h"))),
                            Moved("v", new_y - position.y, dy, Len(AxisActions(dy, "v")))>>,
                !.position = [position EXCEPT !.x = new_x, !.y = new_y]]

\* Mutant: a wait block appends its action whatever the duration is.
WaitAlways ==
    LET duration == InputValue("DURATION")
    IN  IF duration.raises THEN Fails
        ELSE [Same EXCEPT !.actions = <<WaitAction(CurrentName, duration.value * 100)>>]

\* lines 151-153
WaitBlock ==
    LET duration == InputValue("DURATION")
    IN  IF duration.raises THEN Fails
        ELSE IF duration.value > 0
        THEN [Same EXCEPT !.actions = <<WaitAction(CurrentName, duration.value * 100)>>]
        ELSE Same

\* lines 154-162
SizeBlock ==
    LET given == IF CurrentBlock.opcode = "looks_setsizeto"
                 THEN InputValue("SIZE") ELSE InputValue("CHANGE")
        new_z == IF CurrentBlock.opcode = "looks_setsizeto"
                 THEN given.value ELSE position.z + given.value
        dz == IntOf(new_z - position.z)
        made == IF Abs(dz) >= MIN_TELLO_MOVE
                THEN <<height_to_command(CurrentName, dz)>> ELSE <<>>
    IN  IF given.raises THEN Fails
        ELSE [Same EXCEPT
                !.actions = made,
                !.moves = <<Moved("z", new_z - position.z, dz, Len(made))>>,
                !.position = [position EXCEPT !.z = new_z]]

\* inputs.get('SUBSTACK', [None, None])[1]
SubstackId == InputOf(CurrentBlock, "SUBSTACK").block

\* Mutant: the body of a repeat block is traversed once whatever the count.
RepeatBodyOnce ==
    LET times == InputValue("TIMES")
    IN  IF times.raises \/ InputOf(CurrentBlock, "SUBSTACK").form = "cut" THEN Fails
        ELSE IF Round(times.value) > 0 /\ SubstackId # 0
        THEN [Same EXCEPT !.frames = Append(Advanced, Frame(SubstackId, Top.args, 0))]
        ELSE Same

\* lines 163-169
RepeatBlock ==
    LET times == InputValue("TIMES")
    IN  IF times.raises \/ InputOf(CurrentBlock, "SUBSTACK").form = "cut" THEN Fails
        ELSE IF Round(times.value) > 0 /\ SubstackId # 0
        THEN [Same EXCEPT !.frames =
                Append(Advanced, Frame(SubstackId, Top.args, Round(times.value) - 1))]
        ELSE Same

\* Mutant: a forever block makes one pass more.
ForeverOneMore ==
    IF InputOf(CurrentBlock, "SUBSTACK").form = "cut" THEN Fails
    ELSE IF SubstackId # 0
    THEN [Same EXCEPT !.frames =
            Append(Advanced, Frame(SubstackId, Top.args, FOREVER_PASSES))]
    ELSE Same

\* lines 170-175
ForeverBlock ==
    IF InputOf(CurrentBlock, "SUBSTACK").form = "cut" THEN Fails
    ELSE IF SubstackId # 0
    THEN [Same EXCEPT !.frames =
            Append(Advanced, Frame(SubstackId, Top.args, FOREVER_PASSES - 1))]
    ELSE Same

HandledOpcodes ==
    {"data_setvariableto", "data_changevariableby", "procedures_call",
     "motion_turnright", "motion_turnleft", "event_broadcast", "motion_gotoxy",
     "motion_movesteps", "control_wait", "looks_setsizeto", "looks_changesizeby",
     "control_repeat", "control_forever"}

\* The traversal's variables before parse_to_schedule reaches the targets.
NoPosition == [x |-> 0, y |-> 0, z |-> 0]

\* The state in which parse_to_schedule has built the takeoff event and is
\* about to walk the targets of a readable project (line 186).
InitTraverse(others) ==
    /\ archive = "ok"
    /\ blocks = [n \in TargetSet |-> NoScript]
    /\ ppc = "traversing"
    /\ project_data = "data"
    /\ has_any_valid_action = FALSE
    /\ log_queue = <<>>
    /\ all_actions = <<>>
    /\ drones_with_actions = <<>>
    /\ final_event_list = <<TakeoffEvent>>
    /\ master_time = TAKEOFF_DURATION
    /\ step = 0
    /\ result = NoResult
    /\ IdleShow
    /\ IdleSend
    /\ NoEarlierCall
    /\ IdleGui
    /\ \E a \in Chains, b \in others, first \in SpriteSet :
          project = IF first = "A" THEN ("A" :> a) @@ ("B" :> b)
                    ELSE ("A" :> b) @@ ("B" :> a)
    /\ all_blocks = <<>>
    /\ tpc = "start"
    /\ target_idx = 0
    /\ initial_variable_state = <<>>
    /\ procedures = <<>>
    /\ frames = <<>>
    /\ position = NoPosition
    /\ current_vars = <<>>
    /\ local_action_sequence = <<>>
    /\ visited = 0
    /\ moves = <<>>
    /\ entered = <<>>

\* Projects in which no block id occurs in two tables.
InitProject == InitTraverse(OtherChains)

\* Projects in which the second sprite's table may hold a block under an id
\* of the first sprite's table.
InitClash == InitTraverse(OtherChains \cup {ShadowChain})

\* lines 186-193: all_blocks and the initial variable snapshot
BeginTargets ==
    /\ ppc = "traversing"
    /\ tpc = "start"
    /\ all_blocks' = AllBlocksFrom(1)
    /\ initial_variable_state' = InitialVariableState
    /\ target_idx' = 1
    /\ tpc' = "next_target"
    /\ UNCHANGED <<project, procedures, frames, position, current_vars,
                   local_action_sequence, visited, moves, entered>>
    /\ UNCHANGED <<pvars, notTraverse>>

AtTarget == tpc = "next_target" /\ target_idx <= Len(Targets)

\* line 196: the stage is passed over
SkipStage ==
    /\ AtTarget
    /\ IsStage(CurrentName)
    /\ target_idx' = target_idx + 1
    /\ UNCHANGED <<project, all_blocks, tpc, initial_variable_state, procedures, frames, position,
                   current_vars, local_action_sequence, visited, moves, entered>>
    /\ UNCHANGED <<pvars, notTraverse>>

\* lines 197-201 and 84-85: a sprite without an entry block yields []
SkipSprite ==
    /\ AtTarget
    /\ ~IsStage(CurrentName)
    /\ ~ProceduresRaise(TargetBlocks(CurrentName))
    /\ find_start_block(TargetBlocks(CurrentName)) = 0
    /\ procedures' = find_procedure_definitions_for_target(TargetBlocks(CurrentName))
    /\ target_idx' = target_idx + 1
    /\ UNCHANGED <<project, all_blocks, tpc, initial_variable_state, frames, position, current_vars,
                   local_action_sequence, visited, moves, entered>>
    /\ UNCHANGED <<pvars, notTraverse>>

\* Mutant: one variable dict is shared by the traversals of all sprites.
VariableStateShared ==
    IF current_vars = <<>> THEN initial_variable_state ELSE current_vars

\* line 88: variable_state = initial_variable_state.copy()
VariableStateAtStart == initial_variable_state

\* lines 197-201 and 84-90: the traversal of a sprite starts
EnterSprite ==
    /\ AtTarget
    /\ ~IsStage(CurrentName)
    /\ ~ProceduresRaise(TargetBlocks(CurrentName))
    /\ find_start_block(TargetBlocks(CurrentName)) # 0
    /\ procedures' = find_procedure_definitions_for_target(TargetBlocks(CurrentName))
    /\ has_any_valid_action' = TRUE
    /\ position' = [x |-> 0, y |-> 0, z |-> INITIAL_HOVER_HEIGHT_CM * 10]
    /\ current_vars' = VariableStateAtStart
    /\ frames' = <<Frame(find_start_block(TargetBlocks(CurrentName)), <<>>, 0)>>
    /\ local_action_sequence' = <<>>
    /\ visited' = 0
    /\ tpc' = "run"
    /\ UNCHANGED <<project, all_blocks, target_idx, initial_variable_state, moves, entered>>
    /\ UNCHANGED <<archive, blocks, ppc, project_data, log_queue, all_actions,
                   drones_with_actions, final_event_list, master_time, step, result>>
    /\ UNCHANGED notTraverse

\* line 199 raising: a definition block whose prototype entry is no dict
DefinitionsRaise ==
    /\ AtTarget
    /\ ~IsStage(CurrentName)
    /\ ProceduresRaise(TargetBlocks(CurrentName))
    /\ tpc' = "raised"
    /\ ppc' = "raised"
    /\ UNCHANGED <<project, all_blocks, target_idx, initial_variable_state, procedures, frames,
                   position, current_vars, local_action_sequence, visited, moves, entered>>
    /\ UNCHANGED <<archive, blocks, project_data, has_any_valid_action, log_queue,
                   all_actions, drones_with_actions, final_event_list, master_time,
                   step, result>>
    /\ UNCHANGED notTraverse

\* One pass of the while loop of _traverse_blocks (lines 93-177) with outcome out.
Handle(out) ==
    /\ visited' = visited + 1
    /\ IF out.raises
       THEN /\ tpc' = "raised"
            /\ ppc' = "raised"
            /\ UNCHANGED <<frames, position, current_vars, local_action_sequence, moves,
                           entered>>
       ELSE /\ frames' = out.frames
            /\ position' = out.position
            /\ current_vars' = out.vars
            /\ local_action_sequence' = local_action_sequence \o out.actions
            /\ moves' = moves \o out.moves
            /\ entered' = IF Len(out.frames) > Len(frames)
                          THEN Append(entered, Entered(out.frames, out.position, out.vars))
                          ELSE entered
            /\ UNCHANGED <<tpc, ppc>>
    /\ UNCHANGED <<project, all_blocks, target_idx, initial_variable_state, procedures>>
    /\ UNCHANGED <<archive, blocks, project_data, has_any_valid_action, log_queue,
                   all_actions, drones_with_actions, final_event_list, master_time,
                   step, result>>
    /\ UNCHANGED notTraverse

HandleVariable ==
    AtOpcode({"data_setvariableto", "data_changevariableby"}) /\ Handle(VariableBlock)
HandleCall == AtOpcode({"procedures_call"}) /\ Handle(CallBlock)
HandleTurn == AtOpcode({"motion_turnright", "motion_turnleft"}) /\ Handle(TurnBlock)
HandleBroadcast == AtOpcode({"event_broadcast"}) /\ Handle(BroadcastBlock)
HandleMove == AtOpcode({"motion_gotoxy", "motion_movesteps"}) /\ Handle(MoveBlock)
HandleWait == AtOpcode({"control_wait"}) /\ Handle(WaitBlock)
HandleSize == AtOpcode({"looks_setsizeto", "looks_changesizeby"}) /\ Handle(SizeBlock)
HandleRepeat == AtOpcode({"control_repeat"}) /\ Handle(RepeatBlock)
HandleForever == AtOpcode({"control_forever"}) /\ Handle(ForeverBlock)

\* a block of any other opcode: only line 177 applies
HandleOther ==
    /\ AtBlock
    /\ CurrentBlock.shape = "dict"
    /\ CurrentBlock.opcode \notin HandledOpcodes
    /\ Handle(Same)

\* line 96 on an entry that is a list: block.get raises AttributeError
HandleListEntry ==
    /\ AtBlock
    /\ CurrentBlock.shape # "dict"
    /\ Handle(Fails)

\* lines 93-95 and 178: the chain has ended (None, or an id that is in no
\* table); a loop body starts its next pass, any other call returns
EndOfChain ==
    /\ tpc = "run"
    /\ frames # <<>>
    /\ Top.block_id \notin DOMAIN all_blocks
    /\ Len(frames) > 1 \/ Top.again > 0
    /\ frames' = IF Top.again > 0
                 THEN [frames EXCEPT ![Len(frames)].block_id = Top.restart,
                                     ![Len(frames)].again = Top.again - 1]
                 ELSE SubSeq(frames, 1, Len(frames) - 1)
    /\ entered' = IF Top.again > 0
                  THEN Append(entered, Entered(frames', position, current_vars))
                  ELSE entered
    /\ UNCHANGED <<project, all_blocks, tpc, target_idx, initial_variable_state, procedures,
                   position, current_vars, local_action_sequence, visited, moves>>
    /\ UNCHANGED <<pvars, notTraverse>>

\* lines 180 and 201-203: the outermost call returns the sprite's actions
ReturnActions ==
    /\ tpc = "run"
    /\ Len(frames) = 1
    /\ Top.block_id \notin DOMAIN all_blocks
    /\ Top.again = 0
    /\ blocks' = [blocks EXCEPT ![CurrentName] =
                    [hasFlag |-> TRUE, actions |-> local_action_sequence]]
    /\ frames' = <<>>
    /\ target_idx' = target_idx + 1
    /\ tpc' = "next_target"
    /\ UNCHANGED <<project, all_blocks, initial_variable_state, procedures, position, current_vars,
                   local_action_sequence, visited, moves, entered>>
    /\ UNCHANGED <<archive, ppc, project_data, has_any_valid_action, log_queue,
                   all_actions, drones_with_actions, final_event_list, master_time,
                   step, result>>
    /\ UNCHANGED notTraverse

\* line 203 reached for the last target: the stepping loop is next
TargetsDone ==
    /\ tpc = "next_target"
    /\ target_idx > Len(Targets)
    /\ tpc' = "done"
    /\ ppc' = "constructed"
    /\ UNCHANGED <<project, all_blocks, target_idx, initial_variable_state, procedures, frames,
                   position, current_vars, local_action_sequence, visited, moves, entered>>
    /\ UNCHANGED <<archive, blocks, project_data, has_any_valid_action, log_queue,
                   all_actions, drones_with_actions, final_event_list, master_time,
                   step, result>>
    /\ UNCHANGED notTraverse

TraverseStep ==
    \/ HandleVariable
    \/ HandleCall
    \/ HandleTurn
    \/ HandleBroadcast
    \/ HandleMove
    \/ HandleWait
    \/ HandleSize
    \/ HandleRepeat
    \/ HandleForever
    \/ HandleOther
    \/ HandleListEntry
    \/ EndOfChain

NextProject ==
    \/ BeginTargets
    \/ SkipStage
    \/ SkipSprite
    \/ EnterSprite
    \/ DefinitionsRaise
    \/ TraverseStep
    \/ ReturnActions
    \/ TargetsDone
    \/ ParseBegin
    \/ Step
    \/ Finish

SpecProject == InitProject /\ [][NextProject]_vars

SpecClash == InitClash /\ [][NextProject]_vars

\* parse_to_schedule is called once more on the same parser object: lines
\* 183-186 set up its locals again; self.project_data and
\* self.has_any_valid_action are what the object keeps.
CallAgain ==
    /\ ppc = "returned"
    /\ ~first_result.returned
    /\ first_result' = result
    /\ result' = NoResult
    /\ ppc' = "traversing"
    /\ final_event_list' = EventListAtCall
    /\ master_time' = TAKEOFF_DURATION
    /\ all_actions' = <<>>
    /\ drones_with_actions' = <<>>
    /\ step' = 0
    /\ blocks' = [n \in TargetSet |-> NoScript]
    /\ all_blocks' = <<>>
    /\ tpc' = "start"
    /\ target_idx' = 0
    /\ initial_variable_state' = <<>>
    /\ procedures' = <<>>
    /\ frames' = <<>>
    /\ position' = NoPosition
    /\ current_vars' = <<>>
    /\ local_action_sequence' = <<>>
    /\ visited' = 0
    /\ moves' = <<>>
    /\ entered' = <<>>
    /\ UNCHANGED <<archive, project_data, has_any_valid_action, log_queue, project>>
    /\ UNCHANGED <<svars, cvars, gvars>>

NextTwice == NextProject \/ CallAgain

SpecTwice == InitProject /\ [][NextTwice]_vars

\* --------------------------------------------- TelloController.send_command

Ok == <<"o", "k">>
Land == <<"l", "a", "n", "d">>

\* text.startswith(prefix)
StartsWith(text, prefix) ==
    Len(text) >= Len(prefix) /\ SubSeq(text, 1, Len(prefix)) = prefix

\* What the drone may answer: "ok", "error", "out of range", and a datagram
\* that is empty once stripped.
Responses ==
    {Ok, <<"e", "r", "r", "o", "r">>,
     <<"o", "u", "t", " ", "o", "f", " ", "r", "a", "n", "g", "e">>, <<>>}

\* "land", "left 20", "up 20"
SendCommands ==
    {Land, <<"l", "e", "f", "t", " ", "2", "0">>, <<"u", "p", " ", "2", "0">>}

Stored(text) == [set |-> TRUE, text |-> text]

\* A judgement that gives a landing command no special treatment.
JudgedOkOnly(cmd, resp) == Contains(Ok, resp.text)

\* line 176: "ok" in self.response or command.startswith("land")
Judged(cmd, resp) == Contains(Ok, resp.text) \/ StartsWith(cmd, Land)

\* A send_command call is about to start on a controller whose receive thread
\* runs; self.response holds what an earlier call left.
InitSend ==
    /\ IdleParse
    /\ IdleShow
    /\ IdleTraverse
    /\ cpc = "called"
    /\ the_command \in SendCommands
    /\ response \in {NoResponse, Stored(Ok)}
    /\ ctl_stop_event = FALSE
    /\ socket_closed = FALSE
    /\ receiver = "blocked"
    /\ timed_out = FALSE
    /\ sendto_done = FALSE
    /\ arrivals = <<>>
    /\ observed = "nothing"
    /\ ret = "none"
    /\ NoEarlierCall
    /\ IdleGui

Returns(value, why) ==
    /\ cpc' = "returned"
    /\ ret' = value
    /\ observed' = why

\* line 145: self.response = None
ResetResponse ==
    /\ cpc = "called"
    /\ response' = NoResponse
    /\ arrivals' = <<>>
    /\ cpc' = "sendto"
    /\ UNCHANGED <<the_command, ctl_stop_event, socket_closed, receiver, timed_out, sendto_done,
                   observed, ret>>
    /\ UNCHANGED notSend

\* lines 148-154: sendto, which raises on a closed socket or a network error;
\* then start_time is taken
SendTo ==
    /\ cpc = "sendto"
    /\ \E fails \in BOOLEAN :
          IF fails \/ socket_closed
          THEN Returns(FALSE, "send_error") /\ UNCHANGED sendto_done
          ELSE /\ sendto_done' = TRUE
               /\ cpc' = "while"
               /\ UNCHANGED <<ret, observed>>
    /\ UNCHANGED <<the_command, response, ctl_stop_event, socket_closed, receiver,
                   timed_out, arrivals>>
    /\ UNCHANGED notSend

\* line 155: while self.response is None
WhileCheck ==
    /\ cpc = "while"
    /\ IF response = NoResponse
       THEN cpc' = "stop_check" /\ UNCHANGED observed
       ELSE cpc' = "judge" /\ observed' = "response"
    /\ UNCHANGED <<the_command, response, ctl_stop_event, socket_closed, receiver,
                   timed_out, sendto_done, arrivals, ret>>
    /\ UNCHANGED notSend

\* lines 156-163: if self.stop_event.is_set(): return False
StopCheck ==
    /\ cpc = "stop_check"
    /\ IF ctl_stop_event
       THEN Returns(FALSE, "stop")
       ELSE cpc' = "timeout_check" /\ UNCHANGED <<ret, observed>>
    /\ UNCHANGED <<the_command, response, ctl_stop_event, socket_closed, receiver,
                   timed_out, sendto_done, arrivals>>
    /\ UNCHANGED notSend

\* lines 165-172: if time.time() - start_time > timeout: return False
TimeoutCheck ==
    /\ cpc = "timeout_check"
    /\ IF timed_out
       THEN Returns(FALSE, "timeout")
       ELSE cpc' = "sleep" /\ UNCHANGED <<ret, observed>>
    /\ UNCHANGED <<the_command, response, ctl_stop_event, socket_closed, receiver,
                   timed_out, sendto_done, arrivals>>
    /\ UNCHANGED notSend

\* line 174: time.sleep(0.1)
Sleep ==
    /\ cpc = "sleep"
    /\ cpc' = "while"
    /\ UNCHANGED <<the_command, response, ctl_stop_event, socket_closed, receiver,
                   timed_out, sendto_done, arrivals, observed, ret>>
    /\ UNCHANGED notSend

\* lines 176-183
Judge ==
    /\ cpc = "judge"
    /\ cpc' = "returned"
    /\ ret' = Judged(the_command, response)
    /\ UNCHANGED <<the_command, response, ctl_stop_event, socket_closed, receiver,
                   timed_out, sendto_done, arrivals, observed>>
    /\ UNCHANGED notSend

\* The clock passes start_time + timeout while the call waits.
Elapse ==
    /\ cpc \in {"while", "stop_check", "timeout_check", "sleep"}
    /\ ~timed_out
    /\ timed_out' = TRUE
    /\ UNCHANGED <<cpc, the_command, response, ctl_stop_event, socket_closed, receiver,
                   sendto_done, arrivals, observed, ret>>
    /\ UNCHANGED notSend

\* _receive_response, lines 92-97: the thread blocked in recvfrom stores a
\* datagram; it looks at stop_event only before it blocks again.  The drone
\* answers a command some time after it got it, and a datagram carries no
\* mark of the command it answers: the datagram stored is the drone's reply
\* to the command of this call (own, only once sendto went through) or to a
\* command an earlier call sent and stopped waiting for, or still waits for
\* in another send thread (show_runner.py starts the send threads of an
\* offset and never joins them, lines 305-334).
receive_response ==
    /\ cpc \notin {"called", "returned"}
    /\ receiver = "blocked"
    /\ ~socket_closed
    /\ Len(arrivals) < MaxDatagrams
    /\ \E text \in Responses, own \in BOOLEAN :
          /\ own => sendto_done
          /\ response' = Stored(text)
          /\ arrivals' = Append(arrivals,
                                [text |-> text, stopped |-> ctl_stop_event,
                                 late |-> timed_out, sent |-> sendto_done,
                                 own |-> own])
    /\ receiver' = IF ctl_stop_event THEN "ended" ELSE "blocked"
    /\ UNCHANGED <<cpc, the_command, ctl_stop_event, socket_closed, timed_out, sendto_done,
                   observed, ret>>
    /\ UNCHANGED notSend

\* close, line 187: self.stop_event.set()
CloseSetsStop ==
    /\ cpc # "returned"
    /\ ~ctl_stop_event
    /\ ctl_stop_event' = TRUE
    /\ UNCHANGED <<cpc, the_command, response, socket_closed, receiver, timed_out, sendto_done,
                   arrivals, observed, ret>>
    /\ UNCHANGED notSend

\* close, lines 188-191: self.socket.close(), which ends the blocked recvfrom
CloseSocket ==
    /\ cpc # "returned"
    /\ ctl_stop_event
    /\ ~socket_closed
    /\ socket_closed' = TRUE
    /\ receiver' = "ended"
    /\ UNCHANGED <<cpc, the_command, response, ctl_stop_event, timed_out, sendto_done, arrivals,
                   observed, ret>>
    /\ UNCHANGED notSend

NextSend ==
    \/ ResetResponse
    \/ SendTo
    \/ WhileCheck
    \/ StopCheck
    \/ TimeoutCheck
    \/ Sleep
    \/ Judge
    \/ Elapse
    \/ receive_response
    \/ CloseSetsStop
    \/ CloseSocket

SpecSend == InitSend /\ [][NextSend]_vars

\* ========================================================= the GUI session
\* TelloApp of src/src/gui/main_window.py (connect_drones, start_show,
\* emergency_stop, process_log_queue) with the threads it starts:
\* ShowRunner.connect and ShowRunner.run_show of src/src/core/show_runner.py.
\* The show itself (initial commands and schedule) is one step here; its
\* steps are those of the show runner above.

\* A dict put on the log queue: one with a "type" key, or a log line.
Message(type, ctrls) == [type |-> type, controllers |-> ctrls]
LogLine == Message(NoKey, {})

\* line 59 of connect: drones_to_init, in the order of drones_config
drones_to_init == SelectSeq(DroneOrder, LAMBDA c : c \in ConnectedControllers)

SeqRange(s) == {s[i] : i \in 1..Len(s)}

RECURSIVE TypesOf(_)
TypesOf(msgs) == IF msgs = <<>> THEN <<>> ELSE <<Head(msgs).type>> \o TypesOf(Tail(msgs))

\* self.log(...) of the connect thread, one call per message
ConnectPuts(msgs) ==
    /\ app_queue' = app_queue \o msgs
    /\ connect_log' = connect_log \o TypesOf(msgs)

\* log_queue.put(...) of the show thread
RunnerPuts(msgs) ==
    /\ app_queue' = app_queue \o msgs
    /\ run_log' = run_log \o TypesOf(msgs)

\* _reset_ui_to_parsed_state, main_window.py lines 1109-1119
ParsedState ==
    [connect_btn |-> "normal", start_btn |-> "disabled", stop_btn |-> "disabled",
     controllers |-> {}, stop_event |-> FALSE]

\* A schedule has been parsed: the connect button is enabled, nothing runs.
InitGui ==
    /\ IdleParse
    /\ IdleTraverse
    /\ IdleSend
    /\ NoEarlierCall
    /\ mode = "none"
    /\ drones_config \in {{"A"}, {"A", "B"}}
    /\ show_schedule \in ShowSchedules
    /\ controllers = {}
    /\ stop_event = FALSE
    /\ spc = "idle"
    /\ cmd_idx = 0
    /\ off_idx = 0
    /\ processed = 0
    /\ joined = <<>>
    /\ inflight = <<>>
    /\ dispatched = <<>>
    /\ calls = {}
    /\ returned_calls = {}
    /\ closed = {}
    /\ raised = FALSE
    /\ stop_seen = [set |-> FALSE, idx |-> 0, armed |-> FALSE, at |-> "nowhere", cmd |-> 0]
    /\ completion = [end_wait_time |-> 0, slept |-> FALSE, done |-> FALSE]
    /\ app = ParsedState
    /\ app_queue = <<>>
    /\ last_polled = "none"
    /\ kpc = "idle"
    /\ k_idx = 0
    /\ temp_controllers = <<>>
    /\ replies = <<>>
    /\ connect_closed = {}
    /\ connect_log = <<>>
    /\ rpc = "idle"
    /\ run_controllers = {}
    /\ run_closed = {}
    /\ run_log = <<>>

\* TelloApp.connect_drones, main_window.py lines 1039-1062: with an IP
\* address missing the button is enabled again, else the connect thread starts
connect_drones ==
    /\ app.connect_btn = "normal"
    /\ kpc \in {"idle", "returned"}
    /\ \E all_ips \in BOOLEAN :
          IF all_ips
          THEN /\ app' = [app EXCEPT !.connect_btn = "disabled"]
               /\ kpc' = "begin"
               /\ k_idx' = 0
               /\ temp_controllers' = <<>>
               /\ replies' = <<>>
               /\ connect_closed' = {}
               /\ connect_log' = <<>>
          ELSE UNCHANGED <<app, kpc, k_idx, temp_controllers, replies, connect_closed,
                           connect_log>>
    /\ last_polled' = "none"
    /\ UNCHANGED <<app_queue, rpc, run_controllers, run_closed, run_log>>
    /\ UNCHANGED notGui

\* connect, lines 49-66: the drones to initialise; none of them is configured
ConnectBegin ==
    /\ kpc = "begin"
    /\ IF drones_to_init = <<>>
       THEN /\ ConnectPuts(<<LogLine, LogLine, Message("connection_fail", {})>>)
            /\ kpc' = "returned"
            /\ UNCHANGED k_idx
       ELSE /\ ConnectPuts(<<LogLine>>)
            /\ kpc' = "create"
            /\ k_idx' = 1
    /\ UNCHANGED <<app, last_polled, temp_controllers, replies, connect_closed,
                   rpc, run_controllers, run_closed, run_log>>
    /\ UNCHANGED notGui

\* connect, lines 68-76: TelloController(...) for the next drone.  The
\* constructor binds the command socket (tello_controller.py line 43) outside
\* any try; when bind raises, the except clause of connect (lines 102-104)
\* logs the error and connection_fail.
ConnectCreate ==
    /\ kpc = "create"
    /\ IF k_idx > Len(drones_to_init)
       THEN /\ kpc' = "send"
            /\ UNCHANGED <<k_idx, temp_controllers, replies, app_queue, connect_log>>
       ELSE \E bind_raises \in BOOLEAN :
              IF bind_raises
              THEN /\ ConnectPuts(<<LogLine, Message("connection_fail", {})>>)
                   /\ kpc' = "returned"
                   /\ UNCHANGED <<k_idx, temp_controllers, replies>>
              ELSE /\ temp_controllers' = Append(temp_controllers, drones_to_init[k_idx])
                   /\ replies' = [c \in SeqRange(temp_controllers) \cup {drones_to_init[k_idx]} |->
                                    IF c \in DOMAIN replies THEN replies[c] ELSE NoResponse]
                   /\ k_idx' = k_idx + 1
                   /\ UNCHANGED <<kpc, app_queue, connect_log>>
    /\ UNCHANGED <<app, last_polled, connect_closed, rpc, run_controllers, run_closed, run_log>>
    /\ UNCHANGED notGui

\* What self.response of a controller holds once its send_command("command")
\* has returned: None after a timeout, else the last datagram stored.
ConnectResponses == {NoResponse} \cup {Stored(text) : text \in Responses}

\* connect, lines 78-81: the send threads are started and joined
ConnectSend ==
    /\ kpc = "send"
    /\ replies' \in [SeqRange(temp_controllers) -> ConnectResponses]
    /\ kpc' = "judge"
    /\ UNCHANGED <<app, app_queue, last_polled, k_idx, temp_controllers, connect_closed,
                   connect_log, rpc, run_controllers, run_closed, run_log>>
    /\ UNCHANGED notGui

\* line 84: c.response and "ok" in c.response
Answered(c) == replies[c].set /\ replies[c].text # <<>> /\ Contains(Ok, replies[c].text)

\* lines 83-85: all(... for c in temp_controllers.values())
AllAnswered == \A c \in SeqRange(temp_controllers) : Answered(c)

\* connect, lines 83-99: connection_success with the controllers, or the
\* error line and connection_fail
ConnectJudge ==
    /\ kpc = "judge"
    /\ IF AllAnswered
       THEN /\ ConnectPuts(<<Message("connection_success", SeqRange(temp_controllers))>>)
            /\ kpc' = "returned"
       ELSE /\ ConnectPuts(<<LogLine, Message("connection_fail", {})>>)
            /\ kpc' = "closing"
    /\ UNCHANGED <<app, last_polled, k_idx, temp_controllers, replies, connect_closed,
                   rpc, run_controllers, run_closed, run_log>>
    /\ UNCHANGED notGui

\* connect, lines 100-101: every controller of the call is closed
ConnectClose ==
    /\ kpc = "closing"
    /\ connect_closed' = SeqRange(temp_controllers)
    /\ kpc' = "returned"
    /\ UNCHANGED <<app, app_queue, last_polled, k_idx, temp_controllers, replies,
                   connect_log, rpc, run_controllers, run_closed, run_log>>
    /\ UNCHANGED notGui

\* process_log_queue, main_window.py lines 1171-1188: what a message with a
\* "type" key does to the application; any other message is a log line
Handled(m) ==
    CASE m.type = "connection_success" ->
            [app EXCEPT !.controllers = m.controllers, !.start_btn = "normal"]
      [] m.type = "connection_fail" -> [app EXCEPT !.connect_btn = "normal"]
      [] m.type = "show_finished" -> ParsedState
      [] OTHER -> app

\* process_log_queue, lines 1160-1162: one message is taken off the queue
process_log_queue ==
    /\ app_queue # <<>>
    /\ app' = Handled(Head(app_queue))
    /\ app_queue' = Tail(app_queue)
    /\ last_polled' = Head(app_queue).type
    /\ UNCHANGED <<kpc, k_idx, temp_controllers, replies, connect_closed, connect_log,
                   rpc, run_controllers, run_closed, run_log>>
    /\ UNCHANGED notGui

\* TelloApp.start_show, main_window.py lines 1064-1091, with
\* _set_ui_for_show_running(True), lines 1121-1132
start_show ==
    /\ app.start_btn = "normal"
    /\ rpc \in {"idle", "ended"}
    /\ app' = [app EXCEPT !.start_btn = "disabled", !.connect_btn = "disabled",
                          !.stop_btn = "normal", !.stop_event = FALSE]
    /\ rpc' = "body"
    /\ run_controllers' = app.controllers
    /\ run_closed' = {}
    /\ run_log' = <<>>
    /\ last_polled' = "none"
    /\ UNCHANGED <<app_queue, kpc, k_idx, temp_controllers, replies, connect_closed,
                   connect_log>>
    /\ UNCHANGED notGui

\* TelloApp.emergency_stop, main_window.py lines 1093-1107
StopPressed ==
    /\ app.stop_btn = "normal"
    /\ app' = [app EXCEPT !.stop_event = TRUE, !.stop_btn = "disabled"]
    /\ app_queue' = Append(app_queue, LogLine)
    /\ last_polled' = "none"
    /\ UNCHANGED <<kpc, k_idx, temp_controllers, replies, connect_closed, connect_log,
                   rpc, run_controllers, run_closed, run_log>>
    /\ UNCHANGED notGui

\* run_show, lines 108-131: clear_highlight, then the initial commands and the
\* schedule; a stop_all event sets the shared flag (_process_events line 302)
RunBody ==
    /\ rpc = "body"
    /\ RunnerPuts(<<Message("clear_highlight", {})>>)
    /\ \E stop_all \in BOOLEAN :
          app' = [app EXCEPT !.stop_event = app.stop_event \/ stop_all]
    /\ rpc' = "cleanup"
    /\ UNCHANGED <<last_polled, kpc, k_idx, temp_controllers, replies, connect_closed,
                   connect_log, run_controllers, run_closed>>
    /\ UNCHANGED notGui

\* _cleanup_controllers, lines 363-382: the landing bracket, the closes and
\* their log lines
Cleanup ==
    /\ rpc = "cleanup"
    /\ RunnerPuts(<<Message("clear_highlight", {}), LogLine, LogLine>>)
    /\ run_closed' = run_controllers
    /\ rpc' = "complete"
    /\ UNCHANGED <<app, last_polled, kpc, k_idx, temp_controllers, replies, connect_closed,
                   connect_log, run_controllers>>
    /\ UNCHANGED notGui

\* _cleanup_controllers, line 385: log_queue.put({"type": "show_complete"})
CompletionMessage == Message("show_complete", {})

\* line 385, the last statement of the show thread
Complete ==
    /\ rpc = "complete"
    /\ RunnerPuts(<<CompletionMessage>>)
    /\ rpc' = "ended"
    /\ UNCHANGED <<app, last_polled, kpc, k_idx, temp_controllers, replies, connect_closed,
                   connect_log, run_controllers, run_closed>>
    /\ UNCHANGED notGui

NextGui ==
    \/ connect_drones
    \/ ConnectBegin
    \/ ConnectCreate
    \/ ConnectSend
    \/ ConnectJudge
    \/ ConnectClose
    \/ process_log_queue
    \/ start_show
    \/ StopPressed
    \/ RunBody
    \/ Cleanup
    \/ Complete

SpecGui == InitGui /\ [][NextGui]_vars

\* ------------------------------------------------ claims on the synthesizer

\* What the project asks for, read off the input alone.
InputActions(n) == IF blocks[n].hasFlag THEN blocks[n].actions ELSE <<>>
Contributors(k) == {n \in SpriteSet : Len(InputActions(n)) >= k}
ActorsWithActions == Contributors(1)
SetMax(S) == CHOOSE x \in S : \A y \in S : y <= x
InputStepMax(k) == SetMax({InputActions(n)[k].duration : n \in Contributors(k)})
RECURSIVE InputStepStart(_)
InputStepStart(k) ==
    IF k = 1 THEN TAKEOFF_DURATION ELSE InputStepStart(k - 1) + InputStepMax(k - 1)

EventsFrom(list, n, k) == {i \in 1..Len(list) : list[i].actor = n /\ list[i].step = k}
OfType(list, idx, type) == {i \in idx : list[i].type = type}
Position(list, e) == CHOOSE i \in 1..Len(list) : list[i] = e
ReadableProject == archive \in {"ok", "empty_object"}

\* The events of the k-th action of every actor are stamped with the k-th
\* step's start, on any event list.
LockstepOn(list) ==
    /\ \A i \in 1..Len(list) :
          list[i].step >= 1 =>
              /\ list[i].actor \in Contributors(list[i].step)
              /\ list[i].time = InputStepStart(list[i].step)
    /\ \A k \in 1..step : \A n \in Contributors(k) :
          /\ EventsFrom(list, n, k) # {}
          /\ \A i \in OfType(list, EventsFrom(list, n, k), "COMMAND") :
                \E c \in 1..Len(InputActions(n)[k].commands) :
                    /\ list[i].command = InputActions(n)[k].commands[c].command
                    /\ list[i].target = InputActions(n)[k].commands[c].target

\* C1: every event generated from the k-th action of any actor carries the
\* same time, TAKEOFF_DURATION plus the sum over the earlier steps of the
\* longest duration popped in that step; in the list being built and in the
\* schedule returned.
C1_Lockstep ==
    /\ ppc \in {"stepping", "returned"} => LockstepOn(final_event_list)
    /\ result.returned => LockstepOn(result.schedule)

\* C1 witness: a returned schedule of two steps whose first step popped two
\* actions of different durations.
C1_Witness ==
    /\ result.returned
    /\ step = 2
    /\ Contributors(2) = SpriteSet
    /\ InputActions("A")[1].duration < InputActions("B")[1].duration
    /\ InputActions("A")[2].duration > InputActions("B")[2].duration

\* C5: when at least one actor produced actions, the returned schedule holds
\* exactly one LAND event, it is the last event, its time is total_time, its
\* command is land and it names exactly the actors that had actions.
C5_LandingBracket ==
    (result.returned /\ ActorsWithActions # {}) =>
        LET s == result.schedule
            last == s[Len(s)]
        IN  /\ Cardinality(OfType(s, 1..Len(s), "LAND")) = 1
            /\ last.type = "LAND"
            /\ last.time = result.total_time
            /\ last.command = "land"
            /\ {last.text.who[i] : i \in 1..Len(last.text.who)} = ActorsWithActions
            /\ Len(last.text.who) = Cardinality(ActorsWithActions)

\* C5 witness: a returned schedule for a project in which one actor has
\* actions and another has a flag-click block but no action.
C5_Witness ==
    /\ result.returned
    /\ ActorsWithActions = {"B"}
    /\ blocks["A"].hasFlag
    /\ Len(InputActions("B")) = 2

\* C6: the times of the returned schedule never decrease along the list, and
\* total_time is at least every event's time.
C6_Monotonic ==
    result.returned =>
        LET s == result.schedule
        IN  /\ \A i, j \in 1..Len(s) : i < j => s[i].time <= s[j].time
            /\ \A i \in 1..Len(s) : s[i].time <= result.total_time

\* C6 witness: a returned schedule with a warning in its second step.
C6_Witness ==
    /\ result.returned
    /\ \E i \in 1..Len(result.schedule) :
          result.schedule[i].type = "WARNING" /\ result.schedule[i].step = 2

\* C7: a readable project in which no non-stage actor has a flag-click entry
\* block gives the empty schedule, total_time 0.0, has_any_valid_action false
\* and no exception.
C7_EmptyProjectSafety ==
    (ReadableProject /\ \A n \in SpriteSet : ~blocks[n].hasFlag) =>
        /\ ppc # "raised"
        /\ ~has_any_valid_action
        /\ ppc = "returned" => (result.schedule = <<>> /\ result.total_time = 0)

\* C8: an archive that cannot be opened, has no project.json or holds broken
\* JSON never makes the constructor or parse_to_schedule raise; the result is
\* the empty schedule with total_time 0.0 and an ERROR entry is on the queue.
C8_ParseFailure ==
    LoadFails =>
        /\ ppc # "raised"
        /\ ppc # "new" => \E i \in 1..Len(log_queue) : log_queue[i].level = "ERROR"
        /\ ppc \notin {"new", "constructed"} =>
              /\ ppc = "returned"
              /\ result.returned
              /\ result.schedule = <<>>
              /\ result.total_time = 0

\* C8 witness: parse_to_schedule has returned for an archive with broken JSON.
C8_Witness == archive = "bad_json" /\ ppc = "returned" /\ result.returned

\* A wait action yields one WAIT event, at the step's start, showing its own
\* duration, and one WARNING there exactly when it is shorter than the step.
WaitExtensionOn(list) ==
    \A k \in 1..step : \A n \in Contributors(k) :
        LET action == InputActions(n)[k]
            evs == EventsFrom(list, n, k)
            waits == OfType(list, evs, "WAIT")
            warnings == OfType(list, evs, "WARNING")
        IN  action.is_wait =>
                /\ Cardinality(waits) = 1
                /\ \A i \in waits :
                      /\ list[i].time = InputStepStart(k)
                      /\ list[i].target = n
                      /\ list[i].text.num = Format2f(action.duration)
                /\ \A i \in warnings : list[i].time = InputStepStart(k)
                /\ Cardinality(warnings) =
                      (IF action.duration < InputStepMax(k) THEN 1 ELSE 0)

\* C9: a wait shorter than its step's longest duration produces exactly one
\* WARNING and one WAIT event at the step's start, the WAIT text showing the
\* wait's own duration; a wait as long as the step produces no WARNING.
C9_WaitExtension ==
    /\ ppc \in {"stepping", "returned"} => WaitExtensionOn(final_event_list)
    /\ result.returned => WaitExtensionOn(result.schedule)

\* C9 witness: a returned schedule in which one step extended a 1.0 s wait
\* to 3.0 s and another step held a wait as long as the step.
C9_Witness ==
    /\ result.returned
    /\ \E k \in 1..step : \E n \in Contributors(k) :
          /\ InputActions(n)[k].is_wait
          /\ InputActions(n)[k].duration = 1000
          /\ InputStepMax(k) = 3000
    /\ \E k \in 1..step : \E n \in Contributors(k) :
          /\ InputActions(n)[k].is_wait
          /\ InputActions(n)[k].duration = InputStepMax(k)
          /\ Cardinality(Contributors(k)) = 2

\* C10: in the returned schedule, among events with the same time every
\* WARNING precedes every other event, and the other events keep the order in
\* which they were appended.
C10_SameInstantOrder ==
    result.returned =>
        LET s == result.schedule
        IN  /\ Len(s) = Len(final_event_list)
            /\ \A i \in 1..Len(s) : \E j \in 1..Len(s) : final_event_list[j] = s[i]
            /\ \A i, j \in 1..Len(s) :
                  (i < j /\ s[i].time = s[j].time) =>
                      /\ ~(s[i].type # "WARNING" /\ s[j].type = "WARNING")
                      /\ (s[i].type # "WARNING" /\ s[j].type # "WARNING") =>
                            Position(final_event_list, s[i])
                                < Position(final_event_list, s[j])

\* C10 witness: the sort moved a WARNING in front of a command that was
\* appended before it at the same time.
C10_Witness ==
    /\ result.returned
    /\ \E i, j \in 1..Len(final_event_list) :
          /\ i < j
          /\ final_event_list[i].time = final_event_list[j].time
          /\ final_event_list[i].type = "COMMAND"
          /\ final_event_list[j].type = "WARNING"

\* ---------------------------------------------------- claims on the runner

\* send_command("land") was called on every controller and has returned.
LandedAll == \A c \in controllers : <<c, "land">> \in calls /\ joined[c] = "returned"

\* The offset with index i holds a COMMAND event with command stop_all.
HoldsStopAll(i) ==
    \E j \in 1..Len(show_schedule) :
        /\ show_schedule[j].time = all_event_times[i]
        /\ show_schedule[j].type = "COMMAND"
        /\ show_schedule[j].command = "stop_all"

\* C2: every run of run_show and run_show_worker, whatever happens in it,
\* ends with land sent to every controller of the active set and then each of
\* them closed: at the end all are landed and closed, none is closed before
\* every land call has returned, and before the end the run can always go on.
C2_LandingAlwaysRuns ==
    /\ spc = "done" => (LandedAll /\ closed = controllers)
    /\ closed # {} => LandedAll
    /\ closed \subseteq controllers
    /\ spc # "done" => ENABLED (ShowThreadStep \/ SendThreadStep)

\* C2 witness: a run that sent commands, then raised, ended with both
\* controllers landed and closed.
C2_Witness ==
    /\ spc = "done"
    /\ raised
    /\ dispatched # <<>>
    /\ controllers = {"A", "B"}
    /\ closed = controllers

\* C3: once the loop has processed an offset holding stop_all, the flag is
\* set, that offset is the last one processed, nothing scheduled later is
\* ever dispatched, and the run still ends with every controller landed and
\* closed.
C3_StopAllShortCircuit ==
    \A i \in 1..processed :
        HoldsStopAll(i) =>
            /\ stop_event
            /\ processed = i
            /\ ~raised
            /\ \A k \in 1..Len(dispatched) : dispatched[k].time <= all_event_times[i]
            /\ spc \in {"final_wait", "cleanup_spawn", "cleanup_join", "close", "done"}
            /\ spc = "done" => (LandedAll /\ closed = controllers)

\* C3 witness: stop_all at the first of two offsets set the flag itself, a
\* command for a controller was scheduled at the second offset, nothing was
\* dispatched, and the run ended with both controllers landed and closed.
C3_Witness ==
    /\ spc = "done"
    /\ Len(all_event_times) = 2
    /\ HoldsStopAll(1)
    /\ processed = 1
    /\ stop_seen = [set |-> TRUE, idx |-> 1, armed |-> FALSE, at |-> "process", cmd |-> 3]
    /\ \E j \in 1..Len(show_schedule) :
          /\ show_schedule[j].time = all_event_times[2]
          /\ show_schedule[j].type = "COMMAND"
          /\ show_schedule[j].target \in controllers
    /\ dispatched = <<>>
    /\ controllers = {"A", "B"}
    /\ closed = controllers

\* C4 as stated: while the stop flag is set the schedule loop starts no send.
C4_NoDispatchOnceSet == [][stop_event => dispatched' = dispatched]_vars

\* C4 amended: once the stop flag is set, no offset whose flag check after the
\* sleep comes after the set is dispatched; only the offset whose check had
\* already passed when the operator set the flag may still be dispatched; and
\* setting the flag recalls no send in flight.
C4_NoDispatchAfterCheck ==
    /\ [](stop_event = stop_seen.set)
    /\ [](stop_seen.set =>
            \A k \in 1..Len(dispatched) :
                \/ dispatched[k].idx < stop_seen.idx
                \/ dispatched[k].idx = stop_seen.idx /\ stop_seen.armed)
    /\ [][(~stop_event /\ stop_event') => (inflight' = inflight /\ joined' = joined)]_vars

\* C4 witness: the operator set the flag between the check after the sleep
\* and the dispatch, and that offset's sends were still started, with sends
\* of an earlier offset in flight.
C4_Witness ==
    /\ stop_event
    /\ stop_seen.armed
    /\ stop_seen.idx = 2
    /\ \E k \in 1..Len(dispatched) : dispatched[k].idx = stop_seen.idx
    /\ inflight["A"] = 2

\* ------------------------------------------------ claims on the interpreter

\* The WARNING event the legacy parser appends for a move that is too short
\* (src/src/scratch_parser.py, lines 265-272, 298-301 and 234-237).
IsIgnoredMoveWarning(e, actor) ==
    /\ e.type = "WARNING"
    /\ e.text.tag = "move_ignored"
    /\ e.text.who = <<actor>>

MovesOf(actor, magnitude) ==
    {i \in 1..Len(moves) : moves[i].actor = actor /\ Abs(moves[i].delta) = magnitude}

\* C11 as stated: on every axis a move of exactly MIN_TELLO_MOVE produces one
\* command, and a move one below MIN_TELLO_MOVE produces no command and one
\* warning that is in the returned schedule as a WARNING event.
C11_Threshold ==
    (ppc = "returned" /\ result.returned) =>
        /\ \A i \in 1..Len(moves) :
              /\ Abs(moves[i].delta) = MIN_TELLO_MOVE => moves[i].commands = 1
              /\ Abs(moves[i].delta) = MIN_TELLO_MOVE - 1 => moves[i].commands = 0
        /\ \A n \in SpriteSet :
              Cardinality({j \in 1..Len(result.schedule) :
                              IsIgnoredMoveWarning(result.schedule[j], n)})
                  = Cardinality(MovesOf(n, MIN_TELLO_MOVE - 1))

\* ------------------------------------------------- claims on the transport

\* A datagram was stored while the stop signal was not set and the timeout
\* had not passed.
TimelyArrival ==
    \E i \in 1..Len(arrivals) : ~arrivals[i].stopped /\ ~arrivals[i].late

AcceptedText == Contains(Ok, response.text) \/ StartsWith(the_command, Land)

\* C12 as stated: send_command returns True exactly when a response arrived
\* before the timeout and before the controller was stopped and the response
\* contains "ok" or the command begins with "land"; otherwise False.
C12_TransportResult ==
    cpc = "returned" =>
        (ret = TRUE <=> (sendto_done /\ TimelyArrival /\ AcceptedText))

\* C12 amended: send_command returns True exactly when a poll of its wait
\* loop found a response stored before a poll found the stop signal set or
\* the timeout passed, and the response contains "ok" or the command begins
\* with "land". It returns False when sendto failed, when a poll found the
\* stop signal set or the timeout passed while no response was stored at the
\* poll before, and on a response without "ok" to a command other than land.
C12_ResultOnObservation ==
    cpc = "returned" =>
        /\ ret = TRUE <=> (observed = "response" /\ AcceptedText)
        /\ observed = "response" => (sendto_done /\ arrivals # <<>>)
        /\ observed = "send_error" <=> ~sendto_done
        /\ observed = "stop" => ctl_stop_event
        /\ observed = "timeout" => timed_out
        /\ arrivals = <<>> => ret = FALSE

\* C12 witness: the stop signal was set while the call waited, the answer
\* arrived after that and before the next poll, and the call returned True.
C12_Witness ==
    /\ cpc = "returned"
    /\ ret = TRUE
    /\ ctl_stop_event
    /\ arrivals # <<>>
    /\ \A i \in 1..Len(arrivals) : arrivals[i].stopped /\ arrivals[i].sent

\* -------------------------------------------------- claims on the barriers

ReturnedFromAll(cmd) == \A c \in controllers : <<c, cmd>> \in returned_calls

\* C13: no offset of the schedule is dispatched, and the schedule loop is
\* not entered, before the "command" send and then the "takeoff" send of
\* every controller have returned; no "takeoff" send is made before every
\* "command" send has returned; the completion notice is queued only after
\* every controller's landing send has returned and every controller is closed.
C13_JoinBarriers ==
    /\ (\E c \in controllers : <<c, "takeoff">> \in calls) => ReturnedFromAll("command")
    /\ (processed > 0 \/ dispatched # <<>>
            \/ spc \in {"loop_top", "after_sleep", "process"}) =>
          (ReturnedFromAll("command") /\ ReturnedFromAll("takeoff"))
    /\ spc = "done" => (ReturnedFromAll("land") /\ closed = controllers)

\* C13 witness: a show of two controllers that dispatched sends is complete.
C13_Witness ==
    /\ spc = "done"
    /\ controllers = {"A", "B"}
    /\ dispatched # <<>>
    /\ ReturnedFromAll("takeoff")
    /\ ReturnedFromAll("land")

\* C14: a send that fails or never returns does not hold the show: whatever
\* sends are in flight, the control thread can take its next step everywhere
\* but at the two join barriers, where only the threads of that barrier are
\* waited for; unless the stop flag was set or an exception was raised, the
\* events of every offset have been handed to _process_events when the loop
\* is left; and a finished run has sent "land" to every controller.
C14_FailedSendDoesNotAbort ==
    /\ spc \in {"loop_top", "after_sleep", "process", "final_wait", "cleanup_spawn",
                "close"} => ENABLED ShowThreadStep
    /\ (spc \in {"init_join", "cleanup_join"}
            /\ \A c \in controllers : joined[c] = "returned") => ENABLED ShowThreadStep
    /\ (spc \in {"final_wait", "cleanup_spawn", "cleanup_join", "close", "done"}
            /\ controllers # {} /\ ~stop_event /\ ~raised) =>
          processed = Len(all_event_times)
    /\ spc = "done" => \A c \in controllers : <<c, "land">> \in calls

\* C14 witness: a send of the first offset never returned, the sends of a
\* later offset were dispatched all the same, and the run landed and finished.
C14_Witness ==
    /\ spc = "done"
    /\ ~stop_event
    /\ ~raised
    /\ \E c \in controllers :
          /\ inflight[c] = CountTo(dispatched, c)
          /\ inflight[c] > 0
          /\ <<c, "land">> \in returned_calls
    /\ \E i, j \in 1..Len(dispatched) : dispatched[i].idx < dispatched[j].idx

\* ------------------------------------------------- claims on repeated calls

\* C15: a second call of parse_to_schedule on the same parser object, hence
\* on the same project data, returns the event list and the total time that
\* the first call returned.
C15_Determinism ==
    (ppc = "returned" /\ first_result.returned) =>
        /\ result.returned
        /\ result.schedule = first_result.schedule
        /\ result.total_time = first_result.total_time

\* C15 witness: both calls returned a schedule with commands of both sprites,
\* a warning and the landing.
C15_Witness ==
    /\ ppc = "returned"
    /\ first_result.returned
    /\ result.returned
    /\ \E i, j, k \in 1..Len(result.schedule) :
          /\ result.schedule[i].type = "COMMAND" /\ result.schedule[i].actor = "A"
          /\ result.schedule[j].type = "COMMAND" /\ result.schedule[j].actor = "B"
          /\ result.schedule[k].type = "WARNING"
    /\ result.total_time > TAKEOFF_DURATION

\* ------------------------------------------- claims on the variable store

VariableKinds == {"wait_v", "set_v3", "change_v2"}

\* What a script of variable blocks and waits on v yields when it is run on
\* its own from the value v0 of v (in tenths): a wait per "wait_v".
RECURSIVE WaitsAlone(_, _, _)
WaitsAlone(n, chain, v) ==
    IF chain = <<>> THEN <<>>
    ELSE CASE Head(chain) = "set_v3" -> WaitsAlone(n, Tail(chain), 30)
           [] Head(chain) = "change_v2" -> WaitsAlone(n, Tail(chain), v + 20)
           [] OTHER -> (IF v > 0 THEN <<WaitAction(n, v * 100)>> ELSE <<>>)
                           \o WaitsAlone(n, Tail(chain), v)

\* C16: every sprite's traversal starts from the project-wide initial
\* variable values; what a sprite's script reads from a variable is what the
\* script would read if it ran alone, whatever the other sprite wrote before
\* and whichever sprite comes first; the initial snapshot is never changed.
C16_VariableIsolation ==
    /\ tpc \in {"next_target", "run", "done"} =>
          initial_variable_state = InitialVariableState
    /\ (tpc = "run" /\ visited = 0) => current_vars = InitialVariableState
    /\ \A n \in SpriteSet :
          (/\ ppc = "traversing"
           /\ n \in DOMAIN project
           /\ blocks[n].hasFlag
           /\ \A i \in 1..Len(project[n].chain) : project[n].chain[i] \in VariableKinds)
          => blocks[n].actions = WaitsAlone(n, project[n].chain, InitialVariableState["v"])

\* C16 witness: the first sprite set v to 3, and the second sprite, traversed
\* after it, waited for v seconds and got the initial value 1.
C16_Witness ==
    /\ tpc = "done"
    /\ project["A"] = [flag |-> TRUE, chain |-> <<"set_v3">>]
    /\ project["B"] = [flag |-> TRUE, chain |-> <<"wait_v">>]
    /\ current_vars["v"] = InitialVariableState["v"]
    /\ initial_variable_state["v"] = 10
    /\ blocks["B"].actions = <<WaitAction("B", 1000)>>

\* ------------------------------------------- claims on value resolution

\* What the claim has an input slot resolve to, whatever the slot's type tag:
\* the number of a numeric literal or math_number block, the current value of
\* a bound argument or known variable, and 0.0 for everything else.
ClaimedValue(block_input, table, variable_state, custom_block_args) ==
    CASE block_input.form = "list" -> FloatOrZero(block_input.text)
      [] block_input.form = "var" -> GetOrZero(variable_state, block_input.var)
      [] block_input.form = "ref" /\ block_input.block \in DOMAIN table ->
            LET ref_block == table[block_input.block]
            IN  CASE ref_block.shape # "dict" -> 0
                  [] ref_block.opcode = "math_number" -> FloatOrZero(ref_block.fields.NUM)
                  [] ref_block.opcode = "argument_reporter_string_number"
                         /\ ref_block.fields.VALUE # NoKey ->
                        GetOrZero(custom_block_args, ref_block.fields.VALUE)
                  [] OTHER -> 0
      [] OTHER -> 0

\* C17 as stated: _get_input_value raises for no input slot of a block the
\* traversal is at, and resolves the slot to the claimed value: 0.0 for a
\* missing slot, a non-numeric literal, a reference to a missing or
\* unrecognised block, an unbound argument and an unknown variable; the
\* current value for a bound argument and a known variable.
C17_BestEffortValue ==
    (tpc = "run" /\ AtBlock /\ CurrentBlock.shape = "dict") =>
        \A name \in DOMAIN CurrentBlock.inputs \cup {"STEPS"} :
            /\ ~InputValue(name).raises
            /\ InputValue(name).value =
                  ClaimedValue(InputOf(CurrentBlock, name), all_blocks, current_vars,
                               Top.args)

\* ------------------------------------------------- claims on the stop block

RECURSIVE CountKind(_, _)
CountKind(chain, kind) ==
    IF chain = <<>> THEN 0
    ELSE (IF Head(chain) = kind THEN 1 ELSE 0) + CountKind(Tail(chain), kind)

\* The "stop all" blocks the traversals of the project reach.
StopBlocksReached ==
    CountKind(project["A"].chain, "stop_all") + CountKind(project["B"].chain, "stop_all")

StopAllEventsIn(list) ==
    {i \in 1..Len(list) :
        /\ list[i].type = "COMMAND"
        /\ list[i].target = "system"
        /\ list[i].command = "stop_all"
        /\ list[i].time >= TAKEOFF_DURATION}

\* C18 as stated: every "stop all" block a traversal reaches gives exactly one
\* command with target "system" and command "stop_all", which is in the
\* returned schedule as a COMMAND event of a step.
C18_StopAllCommand ==
    (ppc = "returned" /\ result.returned) =>
        Cardinality(StopAllEventsIn(result.schedule)) = StopBlocksReached

\* ------------------------------------------- claims on malformed entries

\* C19 as stated: whatever malformed entries the block tables hold (a list
\* in place of a record, a record without its fields, met at the entry
\* search, at the procedure discovery, or as the target of a next, substack
\* or input reference), parse_to_schedule does not raise.
C19_MalformedTolerated == tpc # "raised" /\ ppc # "raised"

\* ------------------------------------------- claims on the stepping loop

LongestList == SetMax({Len(InputActions(n)) : n \in SpriteSet})

Remaining(n) == IF n \in DOMAIN all_actions THEN all_actions[n] ELSE <<>>

\* The events of the list that stem from the k-th action of actor n are one
\* COMMAND event per command of the action and one WAIT event if it is a wait.
ConsumedOnce(list, n, k) ==
    LET action == InputActions(n)[k]
        evs == EventsFrom(list, n, k)
        commands == OfType(list, evs, "COMMAND")
    IN  /\ Cardinality(commands) = Len(action.commands)
        /\ \A c \in 1..Len(action.commands) :
              Cardinality({i \in commands :
                              /\ list[i].command = action.commands[c].command
                              /\ list[i].target = action.commands[c].target}) = 1
        /\ Cardinality(OfType(list, evs, "WAIT")) = (IF action.is_wait THEN 1 ELSE 0)

ConservedIn(list, steps) ==
    \A n \in SpriteSet : \A k \in 1..(MaxActions + 1) :
        IF k <= steps /\ k <= Len(InputActions(n))
        THEN ConsumedOnce(list, n, k)
        ELSE EventsFrom(list, n, k) = {}

\* C20: the stepping loop takes exactly as many steps as the longest action
\* list has actions; after s steps every actor's list has lost its first s
\* actions and nothing else; every command of a consumed action is in the
\* event list exactly once as a COMMAND event and every consumed wait exactly
\* once as a WAIT event; an actor whose list is exhausted adds no event in a
\* later step; the returned schedule holds the same events.
C20_Conservation ==
    (archive = "ok" /\ ppc \in {"stepping", "returned"}) =>
        /\ step <= LongestList
        /\ ppc = "stepping" =>
              \A n \in SpriteSet :
                  Remaining(n) = SubSeq(InputActions(n), step + 1, Len(InputActions(n)))
        /\ ConservedIn(final_event_list, step)
        /\ ppc = "returned" =>
              /\ step = LongestList
              /\ result.returned
              /\ ConservedIn(result.schedule, LongestList)
              /\ Len(result.schedule) = Len(final_event_list)

\* C20 witness: a returned schedule of two steps in which the second actor's
\* list ran out after the first step; it holds a command and a wait.
C20_Witness ==
    /\ archive = "ok"
    /\ ppc = "returned"
    /\ step = 2
    /\ Len(InputActions("A")) = 2
    /\ Len(InputActions("B")) = 1
    /\ InputActions("B")[1].is_wait
    /\ ~InputActions("A")[2].is_wait
    /\ EventsFrom(result.schedule, "A", 2) # {}

\* ------------------------------------------- claims on the dispatch order

DistinctTimes == {show_schedule[i].time : i \in 1..Len(show_schedule)}

\* The place of time t among the distinct times of the schedule.
RankOf(t) == 1 + Cardinality({u \in DistinctTimes : u < t})

\* The events of the schedule at time t that ask for command cmd to be sent to
\* controller c: a COMMAND event for c with that command, and a LAND event
\* with that command whose text holds the name of c.
AskingFor(t, c, cmd) ==
    {i \in 1..Len(show_schedule) :
        /\ show_schedule[i].time = t
        /\ \/ /\ show_schedule[i].type = "COMMAND"
              /\ show_schedule[i].target = c
              /\ show_schedule[i].command = cmd
           \/ /\ show_schedule[i].type = "LAND"
              /\ show_schedule[i].command = cmd
              /\ NameInText(c, show_schedule[i].text)}

SendsOf(t, c, cmd) ==
    {j \in 1..Len(dispatched) :
        /\ dispatched[j].time = t
        /\ dispatched[j].target = c
        /\ dispatched[j].command = cmd}

\* C21: the schedule loop hands every distinct time of the schedule to
\* _process_events at most once and in ascending order; the sends it starts
\* go to controllers and stem from COMMAND and LAND events only, one send per
\* such event per controller; an offset that was left by stop_all or by an
\* exception starts no send; WAIT, WARNING and TAKEOFF events start none.
C21_DispatchOrder ==
    /\ processed <= Cardinality(DistinctTimes)
    /\ processed \in {off_idx - 1, off_idx}
    /\ \A j \in 1..Len(dispatched) :
          /\ dispatched[j].time \in DistinctTimes
          /\ dispatched[j].idx = RankOf(dispatched[j].time)
          /\ dispatched[j].idx < off_idx
          /\ dispatched[j].target \in controllers
          /\ AskingFor(dispatched[j].time, dispatched[j].target, dispatched[j].command) # {}
          /\ \A k \in 1..Len(dispatched) : j < k => dispatched[j].time <= dispatched[k].time
    /\ \A t \in DistinctTimes : \A c \in controllers :
          \A cmd \in {show_schedule[i].command : i \in 1..Len(show_schedule)} :
              Cardinality(SendsOf(t, c, cmd)) =
                  (IF RankOf(t) < off_idx THEN Cardinality(AskingFor(t, c, cmd)) ELSE 0)

\* C21 witness: two offsets were processed in order; the first held a WARNING,
\* a WAIT and one command for A, the second a command for each controller.
C21_Witness ==
    /\ controllers = {"A", "B"}
    /\ processed = 2
    /\ off_idx = 3
    /\ Len(dispatched) = 3
    /\ dispatched[1].idx = 1
    /\ dispatched[2].idx = 2
    /\ \E i \in 1..Len(show_schedule) :
          show_schedule[i].type = "WAIT" /\ show_schedule[i].time = dispatched[1].time

\* ------------------------------------------ claims on the scheduled landing

\* The actors the schedule holds COMMAND or WAIT events for: the actors that
\* had actions (src/src/core/scratch_parser.py:221).
HadActions(c) ==
    \E i \in 1..Len(show_schedule) :
        /\ show_schedule[i].type \in {"COMMAND", "WAIT"}
        /\ show_schedule[i].target = c

\* The LAND events that name the actors that had actions and no others, as
\* the parser writes them, and whose offset has been processed.
LandDispatched ==
    {i \in 1..Len(show_schedule) :
        /\ show_schedule[i].type = "LAND"
        /\ \A c \in Drones : NamedExactly(c, show_schedule[i].text) <=> HadActions(c)
        /\ RankOf(show_schedule[i].time) < off_idx}

\* C22: when the LAND event is dispatched, 'land' is sent to the controller
\* of every actor that had actions and to no controller of an actor that had
\* none, whatever the names of the actors are.
C22_LandTargets ==
    \A i \in LandDispatched : \A c \in controllers :
        SendsOf(show_schedule[i].time, c, "land") # {} <=> HadActions(c)

\* The half of it that holds for every set of names: no controller of an
\* actor that had actions is left out.
C22_NoneLeftOut ==
    \A i \in LandDispatched : \A c \in controllers :
        HadActions(c) => SendsOf(show_schedule[i].time, c, "land") # {}

\* ------------------------------------------------ claims on the final wait

\* The schedule loop was left before its last offset had been processed,
\* which without an exception happens on cancellation only.
LeftEarly == off_idx <= Len(all_event_times)

\* C23 as stated: whenever time remains until total_time, after the last
\* offset and also after a cancellation, the runner sleeps before the landing
\* bracket starts.
C23_FinalWait ==
    (completion.done /\ completion.end_wait_time > 0) => completion.slept

\* C23, amended: the runner sleeps before the landing bracket only if time
\* remains until total_time; it never sleeps when the loop was left on
\* cancellation, and it does sleep when the last offset has been processed,
\* time remains and the flag has not been set.
C23_WaitUnlessCancelled ==
    /\ completion.done =>
        /\ spc \in {"cleanup_spawn", "cleanup_join", "close", "done"}
        /\ completion.slept => completion.end_wait_time > 0
        /\ LeftEarly => /\ stop_event
                        /\ ~completion.slept
        /\ (~LeftEarly /\ completion.end_wait_time > 0 /\ ~stop_event)
                => completion.slept

C23_Witness ==
    /\ completion.done
    /\ completion.slept
    /\ ~LeftEarly
    /\ processed = Len(all_event_times)

\* -------------------------------------------------------- claims on loops

\* The sprites whose script is one of the loop scripts with loop block k.
HasLoop(n, k) ==
    /\ project[n].flag
    /\ project[n].chain \in {<<k>>, <<"set_v3", k>>, <<k, "wait_v">>, <<"set_v3", k, "wait_v">>}

\* The value of v (in tenths) when the loop block of such a script is reached.
VAtLoop(n) == IF Head(project[n].chain) = "set_v3" THEN 30 ELSE InitialVariableState["v"]

EndsWithWait(n) == project[n].chain[Len(project[n].chain)] = "wait_v"

\* The nested calls made for sprite n, in order, and those of them that
\* began at block id.
EnteredBy(n) == SelectSeq(entered, LAMBDA e : e.actor = n)
PassesAt(n, id) == {i \in 1..Len(EnteredBy(n)) : EnteredBy(n)[i].block_id = id}

\* The sprite's traversal has returned (line 201).
Traversed(n) == blocks[n].hasFlag

\* What k passes through the body "change v by 2, wait v seconds" append when
\* the first of them begins with v.
RECURSIVE PassWaits(_, _, _)
PassWaits(n, v, k) ==
    IF k = 0 THEN <<>>
    ELSE <<WaitAction(n, (v + 20) * 100)>> \o PassWaits(n, v + 20, k - 1)

\* The actions of a loop script whose body is traversed k times.
LoopActions(n, k) ==
    PassWaits(n, VAtLoop(n), k)
        \o (IF EndsWithWait(n) THEN <<WaitAction(n, (VAtLoop(n) + 20 * k) * 100)>> ELSE <<>>)

\* The k-th nested call of sprite n is the k-th pass through the body: it
\* begins at the body's first block with the variables the pass before it
\* left, the position and the arguments of the loop block's call.
PassesThreaded(n) ==
    \A i \in 1..Len(EnteredBy(n)) :
        /\ EnteredBy(n)[i].block_id = Base(n) + 61
        /\ EnteredBy(n)[i].depth = 2
        /\ EnteredBy(n)[i].args = <<>>
        /\ EnteredBy(n)[i].position = [x |-> 0, y |-> 0, z |-> INITIAL_HOVER_HEIGHT_CM * 10]
        /\ EnteredBy(n)[i].vars["v"] = VAtLoop(n) + 20 * (i - 1)

\* The count of a repeat block of the model after rounding, with v the value
\* of the variable when the block is reached.
RepeatCount(k, v) ==
    CASE k = "repeat_v" -> Round(v)
      [] k = "repeat2.5" -> 2
      [] OTHER -> 0

RepeatKinds == LoopKinds \ {"forever_v"}

\* C24: a repeat block whose count is n when the block is reached has its
\* body traversed exactly n times in a row, each pass beginning with the
\* state the pass before it left, and the block after it sees the state the
\* last pass left; with a count of zero or less or without a body nothing is
\* traversed, no action is appended and the state is as before.
C24_BoundedRepeat ==
    \A n \in SpriteSet : \A k \in RepeatKinds :
        HasLoop(n, k) =>
            /\ PassesThreaded(n)
            /\ Len(EnteredBy(n)) <= RepeatCount(k, VAtLoop(n))
            /\ Traversed(n) =>
                /\ Len(EnteredBy(n)) = RepeatCount(k, VAtLoop(n))
                /\ blocks[n].actions = LoopActions(n, RepeatCount(k, VAtLoop(n)))

C24_Witness ==
    /\ project["A"] = [flag |-> TRUE, chain |-> <<"set_v3", "repeat_v", "wait_v">>]
    /\ Traversed("A")
    /\ Len(EnteredBy("A")) = 3
    /\ Len(blocks["A"].actions) = 4
    /\ blocks["A"].actions[4] = WaitAction("A", 9000)

\* C25: a forever block has its body traversed exactly FOREVER_PASSES times,
\* never more, each pass beginning with the state the pass before it left;
\* the traversal then goes on with the block after it, and the sprite's
\* action list is finite.
C25_ForeverCap ==
    \A n \in SpriteSet :
        HasLoop(n, "forever_v") =>
            /\ PassesThreaded(n)
            /\ Len(EnteredBy(n)) <= FOREVER_PASSES
            /\ Traversed(n) =>
                /\ Len(EnteredBy(n)) = FOREVER_PASSES
                /\ blocks[n].actions = LoopActions(n, FOREVER_PASSES)
                /\ Len(blocks[n].actions) = FOREVER_PASSES + (IF EndsWithWait(n) THEN 1 ELSE 0)

C25_Witness ==
    /\ project["A"] = [flag |-> TRUE, chain |-> <<"forever_v", "wait_v">>]
    /\ Traversed("A")
    /\ Len(EnteredBy("A")) = FOREVER_PASSES
    /\ blocks["A"].actions[FOREVER_PASSES + 1] =
            WaitAction("A", (InitialVariableState["v"] + 20 * FOREVER_PASSES) * 100)

\* ----------------------------------------------- claims on procedure calls

\* The sprites whose script is one of the call scripts with call block k.
HasCall(n, k) ==
    /\ project[n].flag
    /\ project[n].chain \in {<<k>>, <<"set_v3", k>>, <<k, "wait_v">>, <<"set_v3", k, "wait_v">>}

StartPosition == [x |-> 0, y |-> 0, z |-> INITIAL_HOVER_HEIGHT_CM * 10]

\* The nested calls "r (20)" leads to when v is v0: the body of r with m
\* bound to 20, and from it the body of s with k bound to the caller's m, j
\* to v, and m not bound.
NestedCalls(n, v0) ==
    <<[actor |-> n, depth |-> 2, block_id |-> Base(n) + 82, args |-> "m" :> 200,
       position |-> StartPosition, vars |-> ("v" :> v0) @@ InitialVariableState],
      [actor |-> n, depth |-> 3, block_id |-> Base(n) + 92,
       args |-> ("k" :> 200) @@ ("j" :> v0),
       position |-> StartPosition, vars |-> ("v" :> v0) @@ InitialVariableState]>>

\* The actions "r (20)" appends when v is v0.  In s: wait (m) waits for
\* nothing, wait (k) for 20 s, v becomes v0 + j, the height goes up by 20.
\* Back in r: wait (m) waits for 20 s, wait (k) for nothing, and the height
\* set to 120 is 20 above the one s left.
NestedActions(n) ==
    <<WaitAction(n, 20000), height_to_command(n, 20),
      WaitAction(n, 20000), height_to_command(n, 20)>>

IsPrefix(a, b) == Len(a) <= Len(b) /\ SubSeq(b, 1, Len(a)) = a

\* C26: a call of a custom block in the sprite's table evaluates its
\* arguments in the caller's bindings, binds them to the formal names in
\* order, runs the body with exactly those bindings, and the caller goes on
\* with its own bindings and with the position and the variables the body
\* left; a call of an unknown custom block appends nothing and changes nothing.
C26_ProcedureCall ==
    \A n \in SpriteSet :
        /\ HasCall(n, "call_r20") =>
              /\ IsPrefix(EnteredBy(n), NestedCalls(n, VAtLoop(n)))
              /\ Traversed(n) =>
                    /\ EnteredBy(n) = NestedCalls(n, VAtLoop(n))
                    /\ blocks[n].actions =
                          NestedActions(n)
                            \o (IF EndsWithWait(n)
                                THEN <<WaitAction(n, 2 * VAtLoop(n) * 100)>> ELSE <<>>)
        /\ HasCall(n, "call_unknown") =>
              /\ EnteredBy(n) = <<>>
              /\ Traversed(n) =>
                    blocks[n].actions =
                        IF EndsWithWait(n) THEN <<WaitAction(n, VAtLoop(n) * 100)>> ELSE <<>>

C26_Witness ==
    /\ project["A"] = [flag |-> TRUE, chain |-> <<"set_v3", "call_r20", "wait_v">>]
    /\ Traversed("A")
    /\ Len(EnteredBy("A")) = 2
    /\ EnteredBy("A")[2].args = ("k" :> 200) @@ ("j" :> 30)
    /\ blocks["A"].actions[5] = WaitAction("A", 6000)

\* ----------------------------------------------- claims on the action shape

\* A wait carries no command and lasts; any other action carries a command
\* for the sprite it belongs to.
WellShaped(a, n) ==
    /\ a.sprite_name = n
    /\ a.is_wait => a.commands = <<>> /\ a.duration > 0
    /\ ~a.is_wait => \E i \in 1..Len(a.commands) : a.commands[i].target = n

\* The wait blocks of the model whose duration is zero or less.
IdleWaits == {"wait0", "wait-1"}

\* C27: every action the traversal produces is a wait without commands and
\* with a duration above zero, or carries at least one command for the sprite
\* being traversed; a wait block whose duration is zero or less produces no
\* action.
C27_ActionShape ==
    /\ tpc = "run" =>
          \A i \in 1..Len(local_action_sequence) :
              WellShaped(local_action_sequence[i], CurrentName)
    /\ \A n \in SpriteSet :
          /\ \A i \in 1..Len(blocks[n].actions) : WellShaped(blocks[n].actions[i], n)
          /\ (project[n].flag /\ Traversed(n)
                /\ \E k \in IdleWaits : project[n].chain = <<k>>)
                => blocks[n].actions = <<>>

C27_Witness ==
    /\ project["A"] = [flag |-> TRUE, chain |-> <<"steps20", "wait1">>]
    /\ project["B"] = [flag |-> TRUE, chain |-> <<"wait-1">>]
    /\ Traversed("A")
    /\ Traversed("B")
    /\ Len(blocks["A"].actions) = 2
    /\ ~blocks["A"].actions[1].is_wait
    /\ blocks["A"].actions[2].is_wait
    /\ blocks["B"].actions = <<>>

\* ------------------------------------------------- claims on termination

\* The blocks the traversal of sprite n handles for a script block of kind k:
\* the block itself and what its body, its passes or the procedure it calls
\* add.  No table of the model has a block that is reachable from itself.
VisitsOf(n, k) ==
    CASE k = "call20" -> 3
      [] k = "call_r20" -> 9
      [] k = "repeat2" -> 3
      [] k = "forever" -> 1 + FOREVER_PASSES
      [] k = "forever_v" -> 1 + 2 * FOREVER_PASSES
      [] k \in RepeatKinds -> 1 + 2 * RepeatCount(k, VAtLoop(n))
      [] k = "next_list" -> 2
      [] OTHER -> 1

RECURSIVE VisitsOfChain(_, _, _)
VisitsOfChain(n, chain, i) ==
    IF i > Len(chain) THEN 0 ELSE VisitsOf(n, chain[i]) + VisitsOfChain(n, chain, i + 1)

\* The traversal of the sprite before the current target has just returned.
JustReturned ==
    /\ tpc = "next_target"
    /\ target_idx > 1
    /\ blocks[Targets[target_idx - 1]].hasFlag

\* C28: on a block table without a cycle the traversal terminates: it handles
\* every block of a chain once per pass, never more blocks than the table's
\* chains, bodies and passes hold, and it leaves a chain at the first block
\* whose next is null or is the id of no block.
C28_Termination ==
    /\ tpc = "run" =>
          /\ visited <= VisitsOfChain(CurrentName, project[CurrentName].chain, 1)
          /\ Len(frames) <= 3
    /\ JustReturned =>
          visited = VisitsOfChain(Targets[target_idx - 1],
                                  project[Targets[target_idx - 1]].chain, 1)
    /\ \A n \in SpriteSet :
          (project[n].flag /\ Traversed(n) /\ project[n].chain = <<"next_gone">>)
              => blocks[n].actions = <<WaitAction(n, 1000)>>

C28_Witness ==
    /\ JustReturned
    /\ Targets[target_idx - 1] = "A"
    /\ project["A"].chain = <<"set_v3", "call_r20", "wait_v">>
    /\ visited = 11

\* ------------------------------------------- claims on actor independence

\* C29: the action list of a sprite is what the sprite's own blocks yield from
\* the initial variable values, whatever the table of the other sprite holds,
\* blocks under an id of the sprite's own table included.
C29_ActorIndependence ==
    \A n \in SpriteSet :
        (/\ project[n].flag
         /\ Traversed(n)
         /\ \A i \in 1..Len(project[n].chain) : project[n].chain[i] \in VariableKinds)
        => blocks[n].actions = WaitsAlone(n, project[n].chain, InitialVariableState["v"])

\* ------------------------------------------------ claims on inert targets

\* The stage, and a sprite whose table holds no flag-click block.
Inert(m) == IsStage(m) \/ ~project[m].flag

\* An event without the bookkeeping of the stepping loop.
Shown(e) ==
    [time |-> e.time, type |-> e.type, target |-> e.target, text |-> e.text,
     command |-> e.command]

RECURSIVE WaitsShown(_, _)
WaitsShown(actions, t) ==
    IF actions = <<>> THEN <<>>
    ELSE <<Shown(WaitEvent(Head(actions), t, 0))>>
            \o WaitsShown(Tail(actions), t + Head(actions).duration)

RECURSIVE TotalOf(_)
TotalOf(actions) == IF actions = <<>> THEN 0 ELSE Head(actions).duration + TotalOf(Tail(actions))

\* The schedule and the total time of a project whose only sprite n yields
\* the given waits.
AloneSchedule(n, actions) ==
    <<Shown(TakeoffEvent)>> \o WaitsShown(actions, TAKEOFF_DURATION)
        \o (IF actions = <<>> THEN <<>>
            ELSE <<Shown(LandEvent(TAKEOFF_DURATION + TotalOf(actions) + LAND_EPSILON, <<n>>))>>)
AloneTotal(actions) ==
    TAKEOFF_DURATION + TotalOf(actions) + (IF actions = <<>> THEN 0 ELSE LAND_EPSILON)

\* No event of the returned schedule belongs to target m or names it.
NoEventOf(m) ==
    \A i \in 1..Len(result.schedule) :
        /\ result.schedule[i].target # m
        /\ result.schedule[i].actor # m
        /\ result.schedule[i].type = "LAND" => ~NamedExactly(m, result.schedule[i].text)

\* The returned schedule is the one sprite n yields alone.
AsIfAlone(n) ==
    LET alone == WaitsAlone(n, project[n].chain, InitialVariableState["v"])
    IN  /\ [i \in 1..Len(result.schedule) |-> Shown(result.schedule[i])]
                = AloneSchedule(n, alone)
        /\ result.total_time = AloneTotal(alone)

\* C30: the stage and a sprite without a flag-click block have no event in
\* the schedule and are not named in the LAND event, and the schedule and the
\* total time are those the other sprite yields without them.
C30_InertActor ==
    (ppc = "returned" /\ result.returned /\ project # <<>>) =>
        \A m \in TargetSet :
            Inert(m) =>
                /\ NoEventOf(m)
                /\ \A n \in SpriteSet :
                      (/\ m \in SpriteSet \ {n}
                       /\ project[n].flag
                       /\ \A i \in 1..Len(project[n].chain) :
                              project[n].chain[i] \in VariableKinds)
                      => AsIfAlone(n)

\* The part of it that holds whatever the tables hold: an inert target has no
\* event and is not named in the LAND event.
NoEventOfInert ==
    (ppc = "returned" /\ result.returned /\ project # <<>>) =>
        \A m \in TargetSet : Inert(m) => NoEventOf(m)

\* ------------------------------------------- claims on the same-offset abort

\* The commands of the schedule that share their time with a stop_all command
\* and are meant for a controller, those listed before it and those after it.
SharesOffsetWithStopAll(j) ==
    /\ show_schedule[j].type = "COMMAND"
    /\ ~IsStopAll(show_schedule[j])
    /\ show_schedule[j].target \in controllers
    /\ \E i \in 1..Len(show_schedule) :
          /\ show_schedule[i].type = "COMMAND"
          /\ IsStopAll(show_schedule[i])
          /\ show_schedule[i].time = show_schedule[j].time

\* C31: no send is ever started for the time of an offset that holds a
\* stop_all command, neither for a command listed before the stop_all nor for
\* one listed after it; processing that offset sets the flag instead.
C31_SameOffsetAbort ==
    /\ \A j \in 1..Len(show_schedule) :
          SharesOffsetWithStopAll(j) =>
              \A k \in 1..Len(dispatched) : dispatched[k].time # show_schedule[j].time
    /\ \A i \in 1..processed :
          HoldsStopAll(i) =>
              /\ stop_event
              /\ \A k \in 1..Len(dispatched) : dispatched[k].time # all_event_times[i]

C31_Witness ==
    /\ spc = "done"
    /\ controllers = {"A", "B"}
    /\ processed = 2
    /\ HoldsStopAll(2)
    /\ \E j \in 1..Len(show_schedule), m \in 1..Len(show_schedule) :
          /\ SharesOffsetWithStopAll(j)
          /\ SharesOffsetWithStopAll(m)
          /\ show_schedule[j].time = all_event_times[2]
          /\ show_schedule[m].time = all_event_times[2]
          /\ \E i \in (j + 1)..(m - 1) : IsStopAll(show_schedule[i])
    /\ Len(dispatched) = 2
    /\ \A k \in 1..Len(dispatched) : dispatched[k].time = all_event_times[1]

\* ------------------------------------------------ claims on order and spacing

\* The COMMAND and WAIT events of actor n on an event list, in list order.
ActorEvents(list, n) ==
    SelectSeq(list, LAMBDA e : e.actor = n /\ e.type \in {"COMMAND", "WAIT"})

\* The event the stepping loop makes of an action is a WAIT for a wait and a
\* COMMAND carrying the action's command otherwise.
EventOfAction(e, a) ==
    IF a.is_wait THEN e.type = "WAIT" /\ e.target = a.sprite_name
    ELSE /\ e.type = "COMMAND"
         /\ Len(a.commands) = 1
         /\ e.command = a.commands[1].command
         /\ e.target = a.commands[1].target

SpacedOn(list, steps) ==
    /\ \A k \in 1..steps : InputStepMax(k) > 0
    /\ \A i, j \in 1..Len(list) :
          (list[i].step >= 1 /\ list[i].step < list[j].step)
              => list[i].time < list[j].time
    /\ \A n \in SpriteSet :
          LET ev == ActorEvents(list, n)
              want == IF Len(InputActions(n)) < steps THEN Len(InputActions(n)) ELSE steps
          IN  /\ Len(ev) = want
              /\ \A k \in 1..Len(ev) :
                    /\ ev[k].step = k
                    /\ EventOfAction(ev[k], InputActions(n)[k])
                    /\ k > 1 => ev[k - 1].time < ev[k].time
    /\ \A i, j \in 1..Len(list) :
          (i # j /\ list[i].type = "COMMAND" /\ list[j].type = "COMMAND"
                /\ list[i].target = list[j].target)
              => list[i].time # list[j].time

\* C32: every step of the stepping loop lasts more than zero, so events of a
\* later step carry a later time; for each actor the COMMAND and WAIT events
\* are, in list order, the events of its actions in action order with strictly
\* increasing times; and no two COMMAND events for one target share a time.
\* In the list being built and in the schedule returned.
C32_OrderAndSpacing ==
    /\ ppc = "stepping" => SpacedOn(final_event_list, step)
    /\ result.returned => SpacedOn(result.schedule, step)

\* C32 witness: a returned schedule of two steps where A waited and then
\* moved while B moved and then waited, each actor's two events at the two
\* step times.
C32_Witness ==
    /\ result.returned
    /\ step = 2
    /\ Len(InputActions("A")) = 2
    /\ Len(InputActions("B")) = 2
    /\ InputActions("A")[1].is_wait
    /\ ~InputActions("A")[2].is_wait
    /\ ~InputActions("B")[1].is_wait
    /\ InputActions("B")[2].is_wait
    /\ Len(ActorEvents(result.schedule, "A")) = 2
    /\ ActorEvents(result.schedule, "A")[1].time < ActorEvents(result.schedule, "A")[2].time
    /\ ActorEvents(result.schedule, "B")[1].time < ActorEvents(result.schedule, "B")[2].time

\* ------------------------------------------- claims on response attribution

\* The drone's reply to the command of this call was stored and holds "ok".
OwnReplyOk ==
    \E i \in 1..Len(arrivals) : arrivals[i].own /\ Contains(Ok, arrivals[i].text)

\* C33: a send_command call for a command other than land returns True only
\* if the drone's reply to that same command was stored and contained "ok";
\* a reply to another command is never what makes the call return True.
C33_ResponseAttribution ==
    (cpc = "returned" /\ ~StartsWith(the_command, Land) /\ ret = TRUE) => OwnReplyOk

\* What the code guarantees instead: the call returns True for such a command
\* only if some datagram holding "ok" was stored after line 145 reset
\* self.response, whichever command it answers.
C33_SomeReplyOk ==
    (cpc = "returned" /\ ~StartsWith(the_command, Land) /\ ret = TRUE) =>
        \E i \in 1..Len(arrivals) : Contains(Ok, arrivals[i].text)

\* The call returned True on the late "ok" to an earlier command, stored
\* before this call's own command was sent.
C33_Credited ==
    /\ cpc = "returned"
    /\ ~StartsWith(the_command, Land)
    /\ ret = TRUE
    /\ Len(arrivals) = 1
    /\ ~arrivals[1].own
    /\ ~arrivals[1].sent

\* ------------------------------------------ claims on cancelling at takeoff

\* Where the show thread is before and during _execute_initial_commands and
\* up to the check that follows it (run_show line 115).
InitialPhases == {"start", "init_check", "init_spawn", "init_join", "takeoff_check"}

\* stop_event was set before or during the initial commands.
StoppedEarly == stop_seen.set /\ stop_seen.at \in InitialPhases

\* stop_event was set before the loop over the initial commands looked at it
\* for "takeoff" (line 217).
StoppedBeforeTakeoff ==
    /\ stop_seen.set
    /\ \/ stop_seen.at = "start"
       \/ stop_seen.at = "init_check" /\ stop_seen.cmd <= 2
       \/ stop_seen.at \in {"init_spawn", "init_join"} /\ stop_seen.cmd = 1

TakeoffSent == \E c \in controllers : <<c, "takeoff">> \in calls

\* C34: when the stop flag is set before or during the initial commands, no
\* event of the schedule is dispatched (the schedule loop is never entered),
\* "takeoff" is sent to no controller if the flag was set before the loop
\* looked at it for takeoff, and the run ends only after "land" was sent to
\* every controller and every controller was closed.
C34_CancelledAtTakeoff ==
    StoppedEarly =>
        /\ processed = 0
        /\ dispatched = <<>>
        /\ spc \notin {"loop_top", "after_sleep", "process", "final_wait"}
        /\ StoppedBeforeTakeoff => ~TakeoffSent
        /\ spc = "done" => (LandedAll /\ closed = controllers)

\* C34 witness: the flag was set while the "command" sends of two controllers
\* were joined; the run ended without a takeoff and without a dispatch of the
\* scheduled command, both controllers landed and closed.
C34_Witness ==
    /\ spc = "done"
    /\ stop_seen.set
    /\ stop_seen.at = "init_join"
    /\ stop_seen.cmd = 1
    /\ controllers = {"A", "B"}
    /\ <<"A", "command">> \in calls
    /\ ~TakeoffSent
    /\ \E j \in 1..Len(show_schedule) :
          show_schedule[j].type = "COMMAND" /\ show_schedule[j].target = "A"
    /\ dispatched = <<>>
    /\ LandedAll
    /\ closed = controllers

\* ------------------------------------------------ claims on the GUI session

OutcomeTypes == {"connection_success", "connection_fail"}

\* The outcome messages among the types a call put, in order.
Outcomes(log) == SelectSeq(log, LAMBDA t : t \in OutcomeTypes)

\* The controllers the connect call has created.
Created == SeqRange(temp_controllers)

\* C35: a returned call of connect has put exactly one outcome message; it is
\* connection_success only if a controller was created for every drone of the
\* schedule and each holds a response containing "ok"; and when it is
\* connection_fail every controller the call created has been closed.
C35_ConnectionOutcome ==
    kpc = "returned" =>
        /\ Len(Outcomes(connect_log)) = 1
        /\ Outcomes(connect_log) = <<"connection_success">> =>
              /\ Created = SeqRange(drones_to_init)
              /\ \A c \in Created : Answered(c)
        /\ Outcomes(connect_log) = <<"connection_fail">> => Created \subseteq connect_closed

\* What holds of every returned call: one outcome message, success only on
\* "ok" from every drone of the schedule, and on a failure found by line 83
\* (every constructor returned) every controller closed.
C35_OutcomeUnlessRaised ==
    kpc = "returned" =>
        /\ Len(Outcomes(connect_log)) = 1
        /\ Outcomes(connect_log) = <<"connection_success">> =>
              /\ Created = SeqRange(drones_to_init)
              /\ \A c \in Created : Answered(c)
        /\ (Outcomes(connect_log) = <<"connection_fail">> /\ k_idx > Len(drones_to_init))
              => Created \subseteq connect_closed

\* The constructor of the second controller raised: connection_fail was put
\* and the first controller is left open.
C35_LeftOpen ==
    /\ kpc = "returned"
    /\ drones_to_init = <<"A", "B">>
    /\ temp_controllers = <<"A">>
    /\ Outcomes(connect_log) = <<"connection_fail">>
    /\ connect_closed = {}

\* C36: the completion message is the last message the show thread puts on
\* the log queue, and when the queue poller has consumed it the application is
\* in the parsed state: controllers cleared, stop flag cleared, connect button
\* enabled, stop button disabled.
C36_CompletionProtocol ==
    /\ rpc = "ended" => (run_log # <<>> /\ run_log[Len(run_log)] = CompletionMessage.type)
    /\ last_polled = CompletionMessage.type =>
          /\ app.controllers = {}
          /\ ~app.stop_event
          /\ app.connect_btn = "normal"
          /\ app.stop_btn = "disabled"

\* What holds: the completion message is the last message of the show thread,
\* and consuming it leaves the application as it was.
C36_CompletionLast ==
    /\ rpc = "ended" => (run_log # <<>> /\ run_log[Len(run_log)] = CompletionMessage.type)
    /\ [][(app_queue # <<>> /\ Head(app_queue) = CompletionMessage /\ app_queue' = Tail(app_queue))
            => app' = app]_vars

\* The poller consumed the completion message of a show and the application
\* still holds the closed controllers, with the connect button disabled.
C36_NotReset ==
    /\ rpc = "ended"
    /\ last_polled = CompletionMessage.type
    /\ app_queue = <<>>
    /\ app.controllers = {"A", "B"}
    /\ run_closed = {"A", "B"}
    /\ app.connect_btn = "disabled"
    /\ app.start_btn = "disabled"
    /\ app.stop_btn = "normal"

\* ------------------------------------------- claims on position tracking

Axes == {"h", "v", "z"}

\* The tracked coordinate of an axis, in tenths.
Coordinate(pos, axis) ==
    CASE axis = "h" -> pos.x
      [] axis = "v" -> pos.y
      [] OTHER -> pos.z

\* What the planar and altitude blocks of the running traversal did on an axis.
MovesOn(axis) == SelectSeq(moves, LAMBDA mv : mv.actor = CurrentName /\ mv.axis = axis)

RECURSIVE SumAsked(_)
SumAsked(mvs) == IF mvs = <<>> THEN 0 ELSE Head(mvs).asked + SumAsked(Tail(mvs))

\* The net distance commanded, in tenths of a centimetre.
RECURSIVE SumCommanded(_)
SumCommanded(mvs) ==
    IF mvs = <<>> THEN 0
    ELSE (IF Head(mvs).commands = 1 THEN Head(mvs).delta * 10 ELSE 0)
            + SumCommanded(Tail(mvs))

\* The displacement asked for by the moves that were dropped.
RECURSIVE SumDropped(_)
SumDropped(mvs) ==
    IF mvs = <<>> THEN 0
    ELSE (IF Head(mvs).commands = 0 THEN Head(mvs).asked ELSE 0) + SumDropped(Tail(mvs))

\* The fraction of a centimetre int() cut from the moves that were commanded.
RECURSIVE SumCut(_)
SumCut(mvs) ==
    IF mvs = <<>> THEN 0
    ELSE (IF Head(mvs).commands = 1 THEN Head(mvs).asked - Head(mvs).delta * 10 ELSE 0)
            + SumCut(Tail(mvs))

Tracked(axis) == Coordinate(position, axis) - Coordinate(StartPosition, axis)

\* The tracked position is what the blocks asked for, and each command is
\* made of the displacement of its own block alone.
TrackedAsAsked ==
    \A axis \in Axes :
        /\ Tracked(axis) = SumAsked(MovesOn(axis))
        /\ \A i \in 1..Len(MovesOn(axis)) :
              LET mv == MovesOn(axis)[i]
              IN  /\ mv.delta = IntOf(mv.asked * (IF axis = "z" THEN 1 ELSE SCRATCH_TO_CM_RATE))
                  /\ mv.commands = (IF Abs(mv.delta) >= MIN_TELLO_MOVE THEN 1 ELSE 0)

\* C37 as stated: while a sprite is traversed its tracked position is the
\* position its blocks asked for, each command is made of its own block's
\* displacement alone, and on every axis the net distance commanded differs
\* from the tracked displacement by exactly the displacement of the dropped
\* moves.
C37_PositionTracking ==
    tpc = "run" =>
        /\ TrackedAsAsked
        /\ \A axis \in Axes :
              SumCommanded(MovesOn(axis)) + SumDropped(MovesOn(axis)) = Tracked(axis)

\* C37 amended: the net distance commanded differs from the tracked
\* displacement by the displacement of the dropped moves and by what int()
\* cut from each commanded move, less than a centimetre per move and towards
\* zero.
C37_TrackingUpToTruncation ==
    tpc = "run" =>
        /\ TrackedAsAsked
        /\ \A axis \in Axes :
              /\ SumCommanded(MovesOn(axis)) + SumDropped(MovesOn(axis)) + SumCut(MovesOn(axis))
                    = Tracked(axis)
              /\ \A i \in 1..Len(MovesOn(axis)) :
                    LET mv == MovesOn(axis)[i]
                    IN  mv.commands = 1 =>
                            /\ Abs(mv.asked - mv.delta * 10) < 10
                            /\ Abs(mv.delta * 10) <= Abs(mv.asked)

\* C37 witness: a planar move too short for a command followed by a commanded
\* one; the tracked position holds both.
C37_Witness ==
    /\ tpc = "run"
    /\ CurrentName = "A"
    /\ project["A"].chain = <<"x19", "steps20">>
    /\ Len(MovesOn("h")) = 2
    /\ MovesOn("h")[1].commands = 0
    /\ MovesOn("h")[1].asked = 190
    /\ MovesOn("v")[2].commands = 1
    /\ position = [StartPosition EXCEPT !.x = 190, !.y = 200]

\* A move of 25.5 was commanded as 25 centimetres and tracked as 25.5.
C37_Truncated ==
    /\ tpc = "run"
    /\ project[CurrentName].chain = <<"steps25.5">>
    /\ Len(MovesOn("v")) = 1
    /\ MovesOn("v")[1].commands = 1
    /\ MovesOn("v")[1].delta = 25
    /\ Tracked("v") = 255

====
